---------------------------- MODULE Spec2Model ----------------------------
(***************************************************************************)
(* Model of the Bershka scraper: run_for_site (src/cli.py), the image      *)
(* embedding call (src/embeddings.py), the row normaliser                  *)
(* (src/transform.py) and BershkaScraper (src/bershka_scraper.py).         *)
(*                                                                         *)
(* Python values: strings are TLA+ strings, None for a string field is the *)
(* value None below, an absent (None or 0, both falsy) numeric identifier  *)
(* is NoId, and a vector is modelled by its length.                        *)
(***************************************************************************)
EXTENDS Integers, Sequences, FiniteSets, TLC

\* ------------------------------------------------------------ bounds
\* Number of entries of category_endpoints in the site configuration.
MaxCategories == 2
\* Product identifiers are 1..MaxId.
MaxId == 3
\* api_conf["batch_size"] of the site configuration (50 when not configured).
BatchSize == 2
\* upsert_batch_size of run_for_site, scaled down from the 50 of cli.py:362.
UpsertBatchSize == 2
\* Largest --limit tried (0 is "no limit").
MaxLimit == 2
\* How many get_image_embedding calls one process makes.
MaxCalls == 2
\* How many rows are made and compared.
MaxRows == 2
\* How many categories load_categories_from_file gives at most.
MaxScrapeCategories == 2
\* BATCH_SIZE of run_full_scrape, scaled down from the 50 of config.py:165.
ScraperBatchSize == 2
\* batch_size of save_to_supabase, scaled down from the 100 of bershka_scraper.py:484.
SaveBatchSize == 2
\* How many generate_embedding calls one scrape makes at most.
MaxJobs == 3

\* ------------------------------------------------- program constants
\* max_retries of get_image_embedding.
max_retries == 3
\* PRODUCT_LIMIT of src/config.py (0 is "no limit").
PRODUCT_LIMIT == 0
\* The dimension get_image_embedding insists on.
EMBED_DIM == 768
\* MAX_WORKERS of src/config.py: the threads of BershkaScraper.executor.
MAX_WORKERS == 10

\* ------------------------------------------------------- Python None
None == "<None>"
NoId == 0
\* What a call that returns no vector returns.
NoVector == -1

\* ----------------------------------------------------------- strings
UpperChars == "ABCDEFGHIJKLMNOPQRSTUVWXYZ"
LowerChars == "abcdefghijklmnopqrstuvwxyz"
Digits == "0123456789"

RECURSIVE IndexOf(_, _, _)
\* The position of the one-character string c in s at or after i, 0 when absent.
IndexOf(s, c, i) ==
    IF i > Len(s) THEN 0
    ELSE IF SubSeq(s, i, i) = c THEN i
    ELSE IndexOf(s, c, i + 1)

LowerChar(c) ==
    LET k == IndexOf(UpperChars, c, 1)
    IN  IF k = 0 THEN c ELSE SubSeq(LowerChars, k, k)

RECURSIVE LowerFrom(_, _)
LowerFrom(s, i) ==
    IF i > Len(s) THEN ""
    ELSE LowerChar(SubSeq(s, i, i)) \o LowerFrom(s, i + 1)

\* str.lower()
Lower(s) == LowerFrom(s, 1)

\* str.startswith(p)
StartsWith(s, p) == Len(p) <= Len(s) /\ SubSeq(s, 1, Len(p)) = p

\* str.endswith(p)
EndsWith(s, p) == Len(p) <= Len(s) /\ SubSeq(s, Len(s) - Len(p) + 1, Len(s)) = p

RECURSIVE ContainsFrom(_, _, _)
ContainsFrom(s, t, i) ==
    IF i + Len(t) - 1 > Len(s) THEN FALSE
    ELSE IF SubSeq(s, i, i + Len(t) - 1) = t THEN TRUE
    ELSE ContainsFrom(s, t, i + 1)

\* t in s
Contains(s, t) == ContainsFrom(s, t, 1)

RECURSIVE LStrip(_)
LStrip(s) ==
    IF Len(s) > 0 /\ SubSeq(s, 1, 1) = " " THEN LStrip(SubSeq(s, 2, Len(s))) ELSE s

RECURSIVE RStrip(_)
RStrip(s) ==
    IF Len(s) > 0 /\ SubSeq(s, Len(s), Len(s)) = " "
    THEN RStrip(SubSeq(s, 1, Len(s) - 1)) ELSE s

\* str.strip(), for the blank the model's strings use (a space)
Strip(s) == LStrip(RStrip(s))

\* bool(s) of an optional string: None and "" are falsy
Truthy(s) == s # None /\ s # ""

\* str(n) of an identifier; the absent identifier prints as Python prints None
IdStr(n) == IF n = NoId THEN "None" ELSE ToString(n)

\* ------------------------------------------------------ src/transform.py
\* What an expression that raises evaluates to in the model.
Raised == "<raised>"

IsAlnumLower(c) == IndexOf(LowerChars, c, 1) > 0 \/ IndexOf(Digits, c, 1) > 0

RECURSIVE StripDash(_)
\* str.strip('-')
StripDash(s) ==
    IF Len(s) > 0 /\ SubSeq(s, 1, 1) = "-" THEN StripDash(SubSeq(s, 2, Len(s)))
    ELSE IF Len(s) > 0 /\ SubSeq(s, Len(s), Len(s)) = "-"
         THEN StripDash(SubSeq(s, 1, Len(s) - 1))
    ELSE s

RECURSIVE SubNonAlnum(_, _, _)
\* re.sub(r'[^a-z0-9]+', '-', s): every run of other characters becomes one dash
SubNonAlnum(s, i, inRun) ==
    IF i > Len(s) THEN ""
    ELSE IF IsAlnumLower(SubSeq(s, i, i))
         THEN SubSeq(s, i, i) \o SubNonAlnum(s, i + 1, FALSE)
    ELSE IF inRun THEN SubNonAlnum(s, i + 1, TRUE)
    ELSE "-" \o SubNonAlnum(s, i + 1, TRUE)

\* The slug run_for_site builds from a title (cli.py:201, 312).
Slug(title) == StripDash(SubNonAlnum(Lower(title), 1, FALSE))

\* _fix_image_url: the '//' branch comes second, so it is never taken.
_fix_image_url(url) ==
    IF ~Truthy(url) THEN url
    ELSE LET u == Strip(url)
         IN  IF StartsWith(u, "/") THEN "https://static.bershka.net" \o u
             ELSE IF StartsWith(u, "//") THEN "https:" \o u
             ELSE u

\* external_id = raw.get("external_id") or raw.get("product_id")
RowExternalId(raw) ==
    IF raw.external_id # NoId THEN raw.external_id ELSE raw.product_id

\* row["id"]: the external id when there is one, else the product URL
RowId(raw) ==
    IF RowExternalId(raw) # NoId THEN IdStr(RowExternalId(raw))
    ELSE IF raw.product_url = None THEN "unknown"
    ELSE raw.product_url

\* row["source"]
RowSource(raw) == IF Truthy(raw.source) THEN raw.source ELSE "scraper"

\* row["title"]
RowTitle(raw) == IF Truthy(raw.title) THEN raw.title ELSE "Unknown title"

\* row["image_url"], with no all_image_urls given
RowImageUrl(raw) ==
    IF Truthy(raw.image_url) THEN _fix_image_url(raw.image_url) ELSE raw.image_url

\* row["product_url"]: the caller's, else one built from the title and the id.
\* re.sub is called with the title as the replacement and '-' as the subject,
\* so the slug is the lowercased title; a None title raises.
RowProductUrl(raw) ==
    IF ~Truthy(raw.product_url) /\ RowExternalId(raw) # NoId
    THEN IF raw.title = None THEN Raised
         ELSE "https://www.bershka.com/us/" \o StripDash(Lower(raw.title))
              \o "-c0p" \o IdStr(RowExternalId(raw)) \o ".html"
    ELSE raw.product_url

\* ---- price (lines 169-194)
\* A price as Python holds it: None, an int n, a float n / 10^exp (n without
\* trailing zeros when exp > 0), or a str s.
PriceVal(type, n, exp, s) == [type |-> type, n |-> n, exp |-> exp, s |-> s]
NoPrice == PriceVal("none", 0, 0, "")
IntPrice(n) == PriceVal("int", n, 0, "")
FloatPrice(n, exp) == PriceVal("float", n, exp, "")
StrPrice(s) == PriceVal("str", 0, 0, s)

RECURSIVE KeepPriceChars(_)
\* re.sub(r"[^0-9.,]", "", s)
KeepPriceChars(s) ==
    IF Len(s) = 0 THEN ""
    ELSE LET c == SubSeq(s, 1, 1)
         IN  (IF IndexOf("0123456789.,", c, 1) > 0 THEN c ELSE "")
                 \o KeepPriceChars(SubSeq(s, 2, Len(s)))

RECURSIVE Count(_, _)
\* str.count(c) for a one-character c
Count(s, c) ==
    IF Len(s) = 0 THEN 0
    ELSE (IF SubSeq(s, 1, 1) = c THEN 1 ELSE 0) + Count(SubSeq(s, 2, Len(s)), c)

RECURSIVE ReplaceChar(_, _, _)
\* str.replace(a, b) for one-character a
ReplaceChar(s, a, b) ==
    IF Len(s) = 0 THEN ""
    ELSE (IF SubSeq(s, 1, 1) = a THEN b ELSE SubSeq(s, 1, 1))
             \o ReplaceChar(SubSeq(s, 2, Len(s)), a, b)

RECURSIVE LastIndexOf(_, _, _)
LastIndexOf(s, c, i) ==
    IF i = 0 THEN 0
    ELSE IF SubSeq(s, i, i) = c THEN i
    ELSE LastIndexOf(s, c, i - 1)

\* "".join(parts[:-1]) + "." + parts[-1] for parts = s.split("."): every
\* dot but the last goes.
MergeDots(s) ==
    LET k == LastIndexOf(s, ".", Len(s))
    IN  ReplaceChar(SubSeq(s, 1, k - 1), ".", "") \o SubSeq(s, k, Len(s))

RECURSIVE DigitsToInt(_, _)
\* int() of a string of digits, acc the value of the digits read so far
DigitsToInt(s, acc) ==
    IF Len(s) = 0 THEN acc
    ELSE DigitsToInt(SubSeq(s, 2, Len(s)),
                     10 * acc + IndexOf(Digits, SubSeq(s, 1, 1), 1) - 1)

RECURSIVE NormalFloat(_, _)
\* The float n / 10^exp with n free of trailing zeros.
NormalFloat(n, exp) ==
    IF exp > 0 /\ n % 10 = 0 THEN NormalFloat(n \div 10, exp - 1)
    ELSE [ok |-> TRUE, n |-> n, exp |-> exp]

\* float(s) of a string of digits, dots and commas: ValueError (ok FALSE)
\* with a comma, with two dots or without a digit.
ParseFloat(s) ==
    IF Count(s, ",") > 0 \/ Count(s, ".") > 1 \/ Len(s) = Count(s, ".")
    THEN [ok |-> FALSE, n |-> 0, exp |-> 0]
    ELSE LET k == IndexOf(s, ".", 1)
         IN  IF k = 0 THEN NormalFloat(DigitsToInt(s, 0), 0)
             ELSE NormalFloat(DigitsToInt(SubSeq(s, 1, k - 1)
                                              \o SubSeq(s, k + 1, Len(s)), 0),
                              Len(s) - k)

RECURSIVE ZeroPad(_, _)
ZeroPad(d, width) == IF Len(d) >= width THEN d ELSE ZeroPad("0" \o d, width)

\* str(num_val) of the float n / 10^exp: Python prints the shortest
\* decimal that reads back, with ".0" for a whole number.
FloatStr(n, exp) ==
    IF exp = 0 THEN ToString(n) \o ".0"
    ELSE LET d == ZeroPad(ToString(n), exp + 1)
         IN  SubSeq(d, 1, Len(d) - exp) \o "." \o SubSeq(d, Len(d) - exp + 1, Len(d))

\* num_val >= 1000 and abs(num_val - int(num_val)) < 1e-9
WholeFrom1000(f) == f.exp = 0 /\ f.n >= 1000

\* num_val / 100.0
DivideBy100(f) == NormalFloat(f.n, f.exp + 2)

\* Lines 180-190: s_clean of a str price.
CleanPrice(s) ==
    LET c0 == KeepPriceChars(Strip(s))
        c1 == IF Count(c0, ",") = 1 /\ Count(c0, ".") = 0
              THEN ReplaceChar(c0, ",", ".") ELSE c0
    IN  IF Count(c1, ".") > 1 THEN MergeDots(c1) ELSE c1

\* Lines 171-192: num_val, ok FALSE when it stays None or float() raises.
PriceNumber(price_val) ==
    CASE price_val.type = "int" ->
            IF price_val.n >= 1000 THEN DivideBy100(NormalFloat(price_val.n, 0))
            ELSE NormalFloat(price_val.n, 0)
      [] price_val.type = "float" -> NormalFloat(price_val.n, price_val.exp)
      [] price_val.type = "str" ->
            LET s_clean == CleanPrice(price_val.s)
                f == ParseFloat(s_clean)
            IN  IF s_clean = "" \/ ~f.ok THEN [ok |-> FALSE, n |-> 0, exp |-> 0]
                ELSE IF WholeFrom1000(f) THEN DivideBy100(f)
                ELSE f
      [] OTHER -> [ok |-> FALSE, n |-> 0, exp |-> 0]

\* row["price"] after lines 169-194: str(num_val), or raw.get("price") as
\* it came when there is no num_val.
RowPrice(raw) ==
    LET num_val == PriceNumber(raw.price)
    IN  IF num_val.ok THEN StrPrice(FloatStr(num_val.n, num_val.exp)) ELSE raw.price

\* ---- gender (lines 126-141)
RECURSIVE UpperFrom(_, _)
UpperFrom(s, i) ==
    IF i > Len(s) THEN ""
    ELSE LET c == SubSeq(s, i, i)
             k == IndexOf(LowerChars, c, 1)
         IN  (IF k = 0 THEN c ELSE SubSeq(UpperChars, k, k)) \o UpperFrom(s, i + 1)

\* str.upper()
Upper(s) == UpperFrom(s, 1)

ManWords == {"MEN", "MAN", "MALE", "GUY", "BOY"}
WomanWords == {"WOMEN", "WOMAN", "FEMALE", "LADY", "GIRL"}

\* A faulty variant of GenderFromWords: what matches no word becomes None.
GenderFromWordsOrNone(gender_str) ==
    IF \E word \in ManWords : Contains(gender_str, word) THEN "MAN"
    ELSE IF \E word \in WomanWords : Contains(gender_str, word) THEN "WOMAN"
    ELSE None

\* Lines 134-139: the elif chain after the exact comparison.
GenderFromWords(gender_str) ==
    IF \E word \in ManWords : Contains(gender_str, word) THEN "MAN"
    ELSE IF \E word \in WomanWords : Contains(gender_str, word) THEN "WOMAN"
    ELSE gender_str

\* row["gender"]
RowGender(raw) ==
    IF ~Truthy(raw.gender) THEN None
    ELSE LET gender_str == Upper(Strip(raw.gender))
         IN  IF gender_str = "MAN" \/ gender_str = "WOMAN" THEN gender_str
             ELSE GenderFromWords(gender_str)

\* The fields of the row the model follows; embedding is attached by the caller.
to_supabase_row(raw) ==
    [id          |-> RowId(raw),
     source      |-> RowSource(raw),
     title       |-> RowTitle(raw),
     image_url   |-> RowImageUrl(raw),
     product_url |-> RowProductUrl(raw),
     embedding   |-> NoVector]

\* ----------------------------------------------------- src/embeddings.py
\* The module globals _model and _model_error as one value:
\* "unloaded" (_model None, no error), "loaded", "error" (_model_error set).
ModelStates == {"unloaded", "loaded", "error"}

\* What one attempt's fetch, decode and inference can come to: an exception
\* in one of the three, a scalar (len() of it raises), or a vector of len.
AttemptKinds == {"fetch_error", "decode_error", "infer_error", "scalar", "vector"}

video_indicators ==
    <<".m3u8", ".mp4", ".avi", ".mov", ".wmv", ".flv", ".webm", ".m4v",
      "video.mp4", "/video">>

non_image_extensions ==
    <<".html", ".htm", ".json", ".xml", ".txt", ".css", ".js">>

\* any(t in s for t in seq)
AnyIn(seq, s) == \E k \in 1..Len(seq) : Contains(s, seq[k])

\* any(s.endswith(t) for t in seq)
AnyEndsWith(seq, s) == \E k \in 1..Len(seq) : EndsWith(s, seq[k])

\* A faulty variant of _get_model: a failed load is tried again.
_get_model_retrying(state, load_ok) ==
    IF state # "loaded" THEN (IF load_ok THEN "loaded" ELSE "error") ELSE state

\* _get_model: loads once; a failed load is remembered in _model_error.
_get_model(state, load_ok) ==
    IF state = "unloaded" THEN (IF load_ok THEN "loaded" ELSE "error") ELSE state

RECURSIVE JoinSegments(_, _, _)
\* "/".join(filter(None, rest.split("/"))): the non-empty segments of rest
JoinSegments(rest, i, out) ==
    IF i > Len(rest)
    THEN (IF Len(out) > 0 /\ SubSeq(out, Len(out), Len(out)) = "/"
          THEN SubSeq(out, 1, Len(out) - 1) ELSE out)
    ELSE LET c == SubSeq(rest, i, i)
         IN  IF c = "/" /\ (out = "" \/ SubSeq(out, Len(out), Len(out)) = "/")
             THEN JoinSegments(rest, i + 1, out)
             ELSE JoinSegments(rest, i + 1, out \o c)

RECURSIVE FindSub(_, _, _)
\* s.find(t) from i, 1-based; 0 when absent
FindSub(s, t, i) ==
    IF i + Len(t) - 1 > Len(s) THEN 0
    ELSE IF SubSeq(s, i, i + Len(t) - 1) = t THEN i
    ELSE FindSub(s, t, i + 1)

\* The URL the attempts fetch: '//host' gets a scheme, and a URL with '//'
\* that does not start with http has the empty segments after it removed.
CleanUrl(raw_url) ==
    LET u1 == IF StartsWith(raw_url, "//") THEN "https:" \o raw_url ELSE raw_url
        k  == FindSub(u1, "//", 1)
    IN  IF k > 0 /\ ~StartsWith(u1, "http")
        THEN SubSeq(u1, 1, k - 1) \o "//" \o JoinSegments(SubSeq(u1, k + 2, Len(u1)), 1, "")
        ELSE u1

\* 2 ** n
RECURSIVE Pow2(_)
Pow2(n) == IF n = 0 THEN 1 ELSE 2 * Pow2(n - 1)

\* The retry loop's bound (for attempt in range(max_retries)).
RetryBound == max_retries

\* A faulty variant of MoreAttempts: the loop gives up after one attempt.
MoreAttemptsOnce(attempt) == attempt < 1

\* Whether range(max_retries) has the 0-based attempt.
MoreAttempts(attempt) == attempt < RetryBound

\* A faulty variant of sleep_time: the exponent is the attempt itself.
sleep_time_doubled(attempt) == Pow2(attempt)

\* sleep_time = 2 ** (attempt - 1), attempt 0-based and greater than 0 (line 82)
sleep_time(attempt) == Pow2(attempt - 1)

\* A faulty variant of DimensionOk: any length passes.
DimensionAny(len) == TRUE

\* The test on the computed vector (len(embedding) != 768).
DimensionOk(len) == len = EMBED_DIM

RECURSIVE Attempts(_, _, _, _, _)
\* The retry loop from attempt (0-based) on: outs[attempt + 1] is what that
\* attempt's fetch, decode and inference come to.
Attempts(url, outs, attempt, fetched, sleeps) ==
    IF ~MoreAttempts(attempt)
    THEN [ret |-> NoVector, fetched |-> fetched, sleeps |-> sleeps, mismatch |-> FALSE]
    ELSE LET sl == IF attempt > 0 THEN Append(sleeps, sleep_time(attempt)) ELSE sleeps
             o  == outs[attempt + 1]
             f  == Append(fetched, url)
         IN  IF o.kind = "vector"
             THEN IF ~DimensionOk(o.len)
                  THEN [ret |-> NoVector, fetched |-> f, sleeps |-> sl, mismatch |-> TRUE]
                  ELSE [ret |-> o.len, fetched |-> f, sleeps |-> sl, mismatch |-> FALSE]
             ELSE Attempts(url, outs, attempt + 1, f, sl)

\* A faulty variant of UrlPasses: a Bershka URL on any host passes.
UrlPassesAnyHost(raw_url) ==
    LET low == Lower(raw_url)
    IN  /\ ~StartsWith(raw_url, "data:")
        /\ ~AnyIn(video_indicators, low)
        /\ ~AnyEndsWith(non_image_extensions, low)

\* Whether validation lets the URL through to the attempts.
UrlPasses(raw_url) ==
    LET low == Lower(raw_url)
    IN  /\ ~StartsWith(raw_url, "data:")
        /\ ~AnyIn(video_indicators, low)
        /\ ~AnyEndsWith(non_image_extensions, low)
        /\ Contains(low, "bershka") =>
              /\ StartsWith(raw_url, "https://static.bershka.net/")
              /\ ~(~Contains(raw_url, "assets/public") /\ Len(raw_url) < 80)

\* Lines 34-78 on the URL alone: whether it is empty or blank, whether it
\* passes validation, and the URL the attempts then fetch.
ValidateUrl(image_url) ==
    IF ~Truthy(image_url) \/ Strip(image_url) = ""
    THEN [blank |-> TRUE, passes |-> FALSE, url |-> ""]
    ELSE [blank |-> FALSE, passes |-> UrlPasses(Strip(image_url)),
          url |-> CleanUrl(Strip(image_url))]

\* The image URLs the model's products and calls use.
GoodImage == "https://static.bershka.net/assets/public/1/photo.jpg"

ImageUrls ==
    { None, "", "  ",
      "data:image/gif;base64,R0lGOD",
      "https://static.bershka.net/assets/public/1/clip.mp4",
      "https://cdn.example.com/a/VIDEO.MP4",
      "https://cdn.example.com/a/page.html",
      "https://www.bershka.com/img/photo.jpg",
      "https://static.bershka.net/img/photo.jpg",
      "//cdn.example.com//a//photo.jpg",
      "cdn.example.com/a//photo.jpg/",
      " https://cdn.example.com/a/photo.jpg ",
      GoodImage }

\* ValidateUrl on the model's URLs, computed once.
ValidationTable == [u \in ImageUrls |-> ValidateUrl(u)]

Validation(image_url) ==
    IF image_url \in ImageUrls THEN ValidationTable[image_url]
    ELSE ValidateUrl(image_url)

\* get_image_embedding(image_url) called with the model in `state`:
\* ret is the vector's length or NoVector, model the state it leaves,
\* fetched the URLs it requested and sleeps the waits it made, in order,
\* mismatch whether it reported a dimension mismatch (line 111).
get_image_embedding(image_url, state, load_ok, outs) ==
    LET v == Validation(image_url)
    IN  IF v.blank
        THEN [ret |-> NoVector, model |-> state, fetched |-> <<>>, sleeps |-> <<>>,
              mismatch |-> FALSE]
        ELSE LET m == _get_model(state, load_ok)
             IN  IF m # "loaded" \/ ~v.passes
                 THEN [ret |-> NoVector, model |-> m, fetched |-> <<>>, sleeps |-> <<>>,
                       mismatch |-> FALSE]
                 ELSE LET r == Attempts(v.url, outs, 0, <<>>, <<>>)
                      IN  [ret |-> r.ret, model |-> m, fetched |-> r.fetched,
                           sleeps |-> r.sleeps, mismatch |-> r.mismatch]

\* What the tokenizer and the text encoder of one get_text_embedding call
\* come to: an exception, no input_ids, an output without text features, a
\* scalar (embedding[0] raises), or a vector of len.
TextKinds == {"error", "no_input_ids", "no_features", "scalar", "vector"}

TextOutcomes ==
    [kind : TextKinds \ {"vector"}, len : {0}]
        \cup [kind : {"vector"}, len : {EMBED_DIM - 1, EMBED_DIM}]

\* get_text_embedding(text) called with the model in `state`: ret is the
\* vector's length or NoVector, model the state it leaves; it requests
\* nothing and waits for nothing.
get_text_embedding(text, state, load_ok, out) ==
    IF ~Truthy(text) \/ Strip(text) = ""
    THEN [ret |-> NoVector, model |-> state, fetched |-> <<>>, sleeps |-> <<>>,
          mismatch |-> FALSE]
    ELSE LET m == _get_model(state, load_ok)
         IN  [ret      |-> IF m = "loaded" /\ out.kind = "vector" /\ out.len = EMBED_DIM
                           THEN out.len ELSE NoVector,
              model    |-> m,
              fetched  |-> <<>>,
              sleeps   |-> <<>>,
              mismatch |-> FALSE]

\* ------------------------------------------------------------ src/cli.py
VARIABLES
    pc,               \* where run_for_site is
    site,             \* the site configuration (site, with site["api"])
    limit,            \* the limit argument
    supa_env,         \* the supa_env argument: get_supabase_env()'s url and key
    cat_i,            \* index of the current entry of category_endpoints
    id_source,        \* which strategy gave the current category its identifiers
    discovery,        \* what Steps 1 to 3 came to for the last category they ran for
    new_product_ids,  \* the current category's identifiers after the duplicate filter
    batch_i,          \* 0-based number of the current batch of new_product_ids
    collected,        \* rows with an embedding, in order
    seen_product_ids, \* identifiers discovered or fetched so far
    requests,         \* the requests issued through session for the current category
    found,            \* the identifiers discovered or fetched for the current category
    earlier,          \* the identifiers discovered or fetched for the categories before it
    upsert_i,         \* 0-based number of the current upsert batch
    upsert_calls,     \* every db.upsert_products call: its rows and whether it succeeded
    success_count,    \* success_count of the persistence loop
    result,           \* the value run_for_site returned
    model_state       \* _model / _model_error of src/embeddings.py

cliVars ==
    <<pc, site, limit, supa_env, cat_i, id_source, discovery, new_product_ids, batch_i,
      collected, seen_product_ids, requests, found, earlier, upsert_i,
      upsert_calls, success_count, result>>

\* The state of the other entry points, each followed by its own
\* specification further down.
VARIABLES
    emb_call,            \* the last get_image_embedding call and what it came to
    emb_n,               \* how many get_image_embedding calls were made
    produced_rows,       \* the rows made so far by to_supabase_row and _extract_single_product
    scr_pc,              \* where BershkaScraper.run_full_scrape is
    categories,          \* how many categories load_categories_from_file gave
    scr_cat,             \* the category run_full_scrape is at
    all_products,        \* all_products of run_full_scrape
    seen_product_urls,   \* seen_product_urls of run_full_scrape
    processed_products,  \* processed_products of run_full_scrape
    scr_batch,           \* 0-based number of the current batch of all_products
    saved,               \* the save_to_supabase calls: the rows given and the count returned
    scr_result,          \* what run_full_scrape returned
    ctx,                 \* where the coroutine of main() is in `async with BershkaScraper()`
    session,             \* BershkaScraper.session
    executor             \* BershkaScraper.executor: its jobs and whether it was shut down

embVars == <<emb_call, emb_n>>

rowVars == <<produced_rows>>

poolVars == <<ctx, session, executor>>

scraperVars ==
    <<scr_pc, categories, scr_cat, all_products, seen_product_urls,
      processed_products, scr_batch, saved, scr_result, poolVars>>

\* An entry point that is not running.
NoCall == [fn |-> None, image_url |-> None, before |-> "unloaded", ret |-> NoVector,
           fetched |-> <<>>, sleeps |-> <<>>, mismatch |-> FALSE, made |-> <<>>]

EmbedIdle == emb_call = NoCall /\ emb_n = 0

RowIdle == produced_rows = <<>>

ScraperIdle ==
    /\ scr_pc = "idle"
    /\ categories = 0
    /\ scr_cat = 0
    /\ all_products = <<>>
    /\ seen_product_urls = {}
    /\ processed_products = <<>>
    /\ scr_batch = 0
    /\ saved = [given |-> <<>>, upserts |-> <<>>, written |-> 0, count |-> 0]
    /\ scr_result = [error |-> FALSE, total_collected |-> 0, processed |-> 0, saved |-> 0]

PoolIdle ==
    /\ ctx = [at |-> "idle", exc |-> None, calls |-> 0, left |-> <<>>]
    /\ session = None
    /\ executor = [shutdown |-> FALSE, jobs |-> <<>>]

Ids == 1..MaxId

\* [i, i+1, ..., j] as a sequence
Range(i, j) == [k \in 1..(j - i + 1) |-> i + k - 1]

RECURSIVE JoinIds(_, _)
\* sep.join(str(pid) for pid in ids)
JoinIds(ids, sep) ==
    IF ids = <<>> THEN ""
    ELSE IF Len(ids) = 1 THEN IdStr(ids[1])
    ELSE IdStr(ids[1]) \o sep \o JoinIds(Tail(ids), sep)

\* The set of a sequence's elements
Elems(seq) == {seq[k] : k \in 1..Len(seq)}

RECURSIVE Filter(_, _)
\* [x for x in seq if x not in excl]
Filter(seq, excl) ==
    IF seq = <<>> THEN <<>>
    ELSE IF seq[1] \in excl THEN Filter(Tail(seq), excl)
    ELSE <<seq[1]>> \o Filter(Tail(seq), excl)

\* A productsArray URL with the identifiers in it, as the configuration gives one.
DirectUrl(category_id, ids) ==
    "https://www.bershka.com/itxrest/3/catalog/store/45009578/40259549/productsArray?categoryId="
        \o category_id \o "&productIds=" \o JoinIds(ids, "%2C") \o "&appId=1"

\* A category-metadata URL of the configuration (no identifiers in it).
MetaUrl(category_id) ==
    "https://www.bershka.com/itxrest/3/catalog/store/45009578/40259549/category/"
        \o category_id \o "/product?showProducts=false"

\* api_conf["category_ids_url"].format(category_id=...)
TemplateUrl(category_id) ==
    "https://www.bershka.com/itxrest/3/catalog/category/" \o category_id \o "/ids"

\* The two hardcoded templates of discover_product_ids_from_api.
HardcodedUrls(category_id) ==
    << "https://www.bershka.com/itxrest/3/catalog/store/45009578/40259549/category/"
           \o category_id
           \o "/product?showProducts=false&showNoStock=false&appId=1&languageId=-15&locale=en_GB",
       "https://www.bershka.com/itxrest/3/catalog/store/45009578/40259549/category/"
           \o category_id \o "/product?languageId=-1&appId=1" >>

\* api_conf["products_url"].format(category_id=..., product_ids=...)
ProductsUrl(category_id, batch_ids) ==
    "https://www.bershka.com/itxrest/3/catalog/store/45009578/40259549/productsArray?categoryId="
        \o category_id \o "&productIds=" \o JoinIds(batch_ids, ",")

\* api_conf["product_url_template"].format(slug=..., product_id=...)
FormatProductUrl(slug, product_id) ==
    "https://www.bershka.com/us/" \o slug \o "-c0p" \o IdStr(product_id) \o ".html"

\* The page discover_product_ids_with_playwright loads.
PageUrl(category_id) ==
    "https://www.bershka.com/us/men/clothes/view-all-c" \o category_id \o ".html"

\* ---- the configurations tried
\* One entry of category_endpoints. direct_ids are the identifiers a
\* productsArray category_api_url carries; fallback is fallback_ids split at
\* the commas, NoId standing for a blank piece.
CatConf(id, api_url, direct_ids, fallback) ==
    [id |-> id, category_api_url |-> api_url, direct_ids |-> direct_ids,
     fallback |-> fallback]

CatConfs ==
    { CatConf("10", None, <<>>, <<>>),
      CatConf("20", MetaUrl("20"), <<>>, <<1, NoId, 2>>),
      CatConf("30", DirectUrl("30", <<1, 2>>), <<1, 2>>, <<MaxId>>),
      CatConf(None, None, <<>>, <<NoId>>) }

SiteKinds == {"no_api", "no_products_url", "ok"}

\* ---- what the collaborators can answer
\* A products response item after field mapping (external_id and product_id
\* both map to the product's id in the configured field_map).
Item(pid, img) ==
    [external_id |-> pid, product_id |-> pid, title |-> "Tee " \o ToString(pid),
     image_url |-> img, source |-> None, product_url |-> None]

RunImageUrls ==
    { "https://static.bershka.net/assets/public/1/clip.mp4",
      GoodImage }

\* What one attempt of get_image_embedding can come to.
AttemptOutcomes ==
    [kind : AttemptKinds \ {"vector"}, len : {0}]
        \cup [kind : {"vector"}, len : {EMBED_DIM - 1, EMBED_DIM}]

Failing(kind) == [kind |-> kind, len |-> 0]

Vector(len) == [kind |-> "vector", len |-> len]

\* The attempt sequences tried inside run_for_site: every attempt failing,
\* a good vector at once, a short vector at once, a good vector at the
\* last attempt.
RunAttempts ==
    { [k \in 1..max_retries |-> Failing("fetch_error")],
      [k \in 1..max_retries |-> Vector(EMBED_DIM)],
      [k \in 1..max_retries |-> Vector(EMBED_DIM - 1)],
      [k \in 1..max_retries |->
          IF k < max_retries THEN Failing("decode_error") ELSE Vector(EMBED_DIM)] }

\* The identifier lists the category-metadata endpoint can answer with.
ApiIdLists == { Range(1, MaxId), <<MaxId>> }

\* What the rendered page can give (nothing when Playwright is missing or fails).
PageIdLists == { <<>>, <<MaxId, 1>> }

\* Every list of products a products request for ids can return: the products
\* of any of the requested identifiers, in the order asked, with any image.
RECURSIVE Responses(_)
Responses(ids) ==
    IF ids = <<>> THEN { <<>> }
    ELSE LET rest == Responses(Tail(ids))
         IN  rest \cup { <<Item(ids[1], img)>> \o r : img \in RunImageUrls, r \in rest }

\* What one GET of a category-metadata URL can come to: an exception or a
\* non-200 answer (ok FALSE), or a 200 answer with its productIds.
ApiOutcomes ==
    [ok : {FALSE}, ids : {<<>>}] \cup [ok : {TRUE}, ids : {<<>>} \cup ApiIdLists]

\* urls_to_try of discover_product_ids_from_api
UrlsToTry(category_id, category_api_url, has_template) ==
    (IF Truthy(category_api_url) THEN <<category_api_url>> ELSE <<>>)
        \o (IF has_template THEN <<TemplateUrl(category_id)>> ELSE <<>>)
        \o HardcodedUrls(category_id)

RECURSIVE TryUrls(_, _, _, _)
\* The loop over urls_to_try from the k-th URL on: it returns at the first
\* 200 answer with a non-empty productIds, and [] when none gives one.
TryUrls(urls, outs, k, asked) ==
    IF k > Len(urls) THEN [ids |-> <<>>, requested |-> asked]
    ELSE IF outs[k].ok /\ outs[k].ids # <<>>
         THEN [ids |-> outs[k].ids, requested |-> Append(asked, urls[k])]
    ELSE TryUrls(urls, outs, k + 1, Append(asked, urls[k]))

\* discover_product_ids_from_api: the identifiers and the URLs it requested
discover_product_ids_from_api(urls, outs) == TryUrls(urls, outs, 1, <<>>)

\* A piece of fallback_ids that is not a number.
NotANumber == -2

\* [int(pid.strip()) for pid in fallback_ids_str.split(",") if pid.strip()]
ParseFallback(tokens) == Filter(tokens, {NoId})

\* int(pid.strip()) raises ValueError on a piece that is not a number.
FallbackRaises(tokens) == \E k \in 1..Len(tokens) : tokens[k] = NotANumber

\* A faulty variant of ResolveIds: the fallback list is never consulted.
ResolveIdsWithoutFallback(api_ids, page_ids, fallback) ==
    IF api_ids # <<>> THEN [ids |-> api_ids, source |-> "api"]
    ELSE IF page_ids # <<>> THEN [ids |-> page_ids, source |-> "page"]
    ELSE [ids |-> <<>>, source |-> "none"]

\* The identifiers Steps 1 to 3 of run_for_site settle on, and the strategy
\* they come from: the API's, else the rendered page's, else the fallback's.
ResolveIds(api_ids, page_ids, fallback) ==
    IF api_ids # <<>> THEN [ids |-> api_ids, source |-> "api"]
    ELSE IF page_ids # <<>> THEN [ids |-> page_ids, source |-> "page"]
    ELSE IF fallback # <<>> THEN [ids |-> ParseFallback(fallback), source |-> "fallback"]
    ELSE [ids |-> <<>>, source |-> "none"]

\* new_product_ids = [pid for pid in product_ids if pid not in seen_product_ids]
NewProductIds(product_ids, seen) == Filter(product_ids, seen)

\* use_direct_url
UseDirectUrl(category_api_url) ==
    /\ Truthy(category_api_url)
    /\ Contains(category_api_url, "productsArray")
    /\ Contains(category_api_url, "productIds=")

\* p.get("external_id") or p.get("product_id") or p.get("id")
ItemId(p) == IF p.external_id # NoId THEN p.external_id ELSE p.product_id

\* What the item loop sets on p before the row is made.
PrepareItem(p, source) ==
    [p EXCEPT !.source = source,
              !.external_id = ItemId(p),
              !.product_url = FormatProductUrl(Slug(p.title), ItemId(p))]

\* title.lower() on a None title raises inside the item loop.
ItemRaises(p) == p.title = None

\* The three tests of the item loop on row["image_url"].
ImageAccepted(image_url) ==
    /\ Truthy(image_url)
    /\ ~AnyIn(<<".mp4", ".m3u8", ".webm", "video">>, Lower(image_url))
    /\ ~(Contains(Lower(image_url), "bershka") /\ ~Contains(image_url, "assets/public"))

\* ImageAccepted on the model's URLs, computed once.
AcceptedTable == [u \in ImageUrls |-> ImageAccepted(u)]

Accepted(image_url) ==
    IF image_url \in ImageUrls THEN AcceptedTable[image_url] ELSE ImageAccepted(image_url)

\* A faulty variant of Collect: the row is appended whatever emb is.
CollectAlways(coll, row, emb) == Append(coll, [row EXCEPT !.embedding = emb])

\* if emb is not None: row["embedding"] = emb; collected.append(row)
Collect(coll, row, emb) ==
    IF emb # NoVector THEN Append(coll, [row EXCEPT !.embedding = emb]) ELSE coll

\* limit and len(collected) >= limit
LimitReached(lim, coll) == lim # 0 /\ Len(coll) >= lim

\* The current cat_conf
Cat == site.categories[cat_i]

\* Steps 1 to 3 for the category numbered cat: the identifiers the API and
\* the rendered page gave ([] for a strategy that failed or was not tried)
\* and the product_ids settled on.
Discovery(cat, ran, api_ids, page_ids, product_ids) ==
    [cat |-> cat, ran |-> ran, api |-> api_ids, page |-> page_ids,
     product_ids |-> product_ids]

NoDiscovery == Discovery(0, FALSE, <<>>, <<>>, <<>>)

Request(kind, url, ids) == [kind |-> kind, url |-> url, ids |-> ids]

\* A request for one batch (line 286), with whether ingest_api returned (ok)
\* or raised.
ProductsRequest(url, ids, ok) == [kind |-> "products", url |-> url, ids |-> ids, ok |-> ok]

Min(a, b) == IF a <= b THEN a ELSE b

\* The row the item loop makes of a fetched product (lines 297-318).
MakeRow(p, source) == to_supabase_row(PrepareItem(p, source))

\* MakeRow on the products the model's responses hold, computed once.
KnownItems == {Item(pid, img) : pid \in Ids, img \in RunImageUrls}

RowTable == [p \in KnownItems |-> MakeRow(p, "scraper")]

ItemRow(p, source) ==
    IF source = "scraper" /\ p \in KnownItems THEN RowTable[p] ELSE MakeRow(p, source)

\* The outcomes a model load can have: there is a load only while unloaded.
LoadOutcomes(state) == IF state = "unloaded" THEN BOOLEAN ELSE {TRUE}

RECURSIVE ProcessItems(_, _, _, _, _, _, _, _)
\* The item loop (lines 185-228 and 296-339) from the k-th product on.
\* A product whose title raises ends it (raised); a product whose image is
\* refused is passed over without the limit test; the others are embedded
\* (outs[k] is what the attempts for the k-th product come to), collected
\* when a vector came back, and followed by the limit test, which breaks.
ProcessItems(its, k, coll, state, source, lim, load_ok, outs) ==
    IF k > Len(its) THEN [collected |-> coll, model |-> state, raised |-> FALSE]
    ELSE IF ItemRaises(its[k]) THEN [collected |-> coll, model |-> state, raised |-> TRUE]
    ELSE LET row == ItemRow(its[k], source)
         IN  IF ~Accepted(row.image_url)
             THEN ProcessItems(its, k + 1, coll, state, source, lim, load_ok, outs)
             ELSE LET r  == get_image_embedding(row.image_url, state, load_ok, outs[k])
                      c2 == Collect(coll, row, r.ret)
                  IN  IF LimitReached(lim, c2)
                      THEN [collected |-> c2, model |-> r.model, raised |-> FALSE]
                      ELSE ProcessItems(its, k + 1, c2, r.model, source, lim, load_ok, outs)

\* ---- run_for_site
\* A faulty variant of Caught: a failing products request is not caught.
CaughtButBatch(where) == where \in {"prewarm", "direct", "upsert_batch", "upsert_row"}

\* Whether run_for_site has an except clause around the call at `where`:
\* the prewarm request (lines 129-132), the direct fetch and its item loop
\* (166-238), a batch fetch and its item loop (284-346), the batch upsert
\* (366-370) and the per-row upsert (373-377) have one; the parsing of
\* fallback_ids (253) has none.
Caught(where) ==
    where \in {"prewarm", "direct", "batch", "upsert_batch", "upsert_row"}

\* Lines 115-143: the prewarm requests, then the products_url test.
Start ==
    /\ pc = "start"
    /\ UNCHANGED discovery
    /\ UNCHANGED <<embVars, rowVars, scraperVars>>
    /\ IF site.kind = "no_api"
       THEN /\ pc' = "persist"
            /\ UNCHANGED requests
       ELSE /\ requests' = [k \in 1..Len(site.prewarm) |->
                               Request("prewarm", site.prewarm[k], <<>>)]
            /\ \E warm_ok \in BOOLEAN :
                  pc' = IF ~warm_ok /\ ~Caught("prewarm") THEN "raised"
                        ELSE IF site.kind = "no_products_url" THEN "done"
                        ELSE "category"
    /\ result' = IF site.kind = "no_products_url" THEN 0 ELSE result
    /\ cat_i' = 1
    /\ UNCHANGED <<site, limit, supa_env, id_source, new_product_ids, batch_i,
                   collected, seen_product_ids, found, earlier, upsert_i,
                   upsert_calls, success_count, model_state>>

\* Lines 145-165: the head of the category loop.
NextCategory ==
    /\ pc = "category"
    /\ UNCHANGED <<embVars, rowVars, scraperVars>>
    /\ IF cat_i > Len(site.categories)
       THEN /\ pc' = "persist"
            /\ UNCHANGED <<cat_i, requests, found, earlier, id_source, discovery>>
       ELSE /\ requests' = <<>>
            /\ discovery' = NoDiscovery
            /\ found' = {}
            /\ earlier' = earlier \cup found
            /\ id_source' = "none"
            /\ IF ~Truthy(Cat.id)
               THEN pc' = "category" /\ cat_i' = cat_i + 1
               ELSE /\ pc' = IF UseDirectUrl(Cat.category_api_url)
                             THEN "direct" ELSE "discover"
                    /\ UNCHANGED cat_i
    /\ UNCHANGED <<site, limit, supa_env, new_product_ids, batch_i, collected,
                   seen_product_ids, upsert_i, upsert_calls, success_count, result,
                   model_state>>

\* Lines 167-238: the direct productsArray request and its item loop. A
\* failure falls through to discovery; an answer is recorded in
\* seen_product_ids unfiltered, and after its products the loop goes to the
\* next category whatever the limit (line 234).
DirectFetch ==
    /\ pc = "direct"
    /\ UNCHANGED discovery
    /\ UNCHANGED <<embVars, rowVars, scraperVars>>
    /\ requests' = Append(requests, Request("direct", Cat.category_api_url, Cat.direct_ids))
    /\ \/ /\ pc' = IF Caught("direct") THEN "discover" ELSE "raised"
          /\ UNCHANGED <<cat_i, collected, seen_product_ids, found, id_source, model_state>>
       \/ \E batch_products \in Responses(Cat.direct_ids),
             load_ok \in LoadOutcomes(model_state) :
             \E outs \in [1..Len(batch_products) -> RunAttempts] :
                LET fetched_ids == [k \in 1..Len(batch_products) |->
                                       ItemId(batch_products[k])]
                    r == ProcessItems(batch_products, 1, collected, model_state,
                                      site.source, limit, load_ok, outs)
                IN  /\ seen_product_ids' = seen_product_ids \cup Elems(fetched_ids)
                    /\ found' = found \cup Elems(fetched_ids)
                    /\ id_source' = "direct"
                    /\ collected' = r.collected
                    /\ model_state' = r.model
                    /\ IF r.raised
                       THEN /\ pc' = IF Caught("direct") THEN "discover" ELSE "raised"
                            /\ UNCHANGED cat_i
                       ELSE pc' = "category" /\ cat_i' = cat_i + 1
    /\ UNCHANGED <<site, limit, supa_env, new_product_ids, batch_i, earlier, upsert_i,
                   upsert_calls, success_count, result>>

\* Lines 240-270: discovery by the API, then the rendered page, then the
\* fallback list; the duplicate filter against seen_product_ids.
Discover ==
    /\ pc = "discover"
    /\ UNCHANGED <<embVars, rowVars, scraperVars>>
    /\ LET urls == UrlsToTry(Cat.id, Cat.category_api_url, site.has_template)
       IN  \E outs \in [1..Len(urls) -> ApiOutcomes], page_ids \in PageIdLists :
              LET api     == discover_product_ids_from_api(urls, outs)
                  usePage == api.ids = <<>>
                  res     == ResolveIds(api.ids, IF usePage THEN page_ids ELSE <<>>,
                                        Cat.fallback)
                  newIds  == NewProductIds(res.ids, seen_product_ids)
                  raises  == /\ res.source = "fallback"
                             /\ FallbackRaises(Cat.fallback)
                             /\ ~Caught("fallback")
              IN  /\ requests' = requests
                        \o [k \in 1..Len(api.requested) |->
                               Request("discovery", api.requested[k], <<>>)]
                        \o (IF usePage THEN <<Request("page", PageUrl(Cat.id), <<>>)>>
                            ELSE <<>>)
                  /\ id_source' = IF res.ids = <<>> \/ raises THEN "none" ELSE res.source
                  /\ discovery' = IF raises THEN discovery
                                   ELSE Discovery(cat_i, TRUE, api.ids,
                                                  IF usePage THEN page_ids ELSE <<>>,
                                                  res.ids)
                  /\ IF raises
                     THEN /\ pc' = "raised"
                          /\ UNCHANGED <<cat_i, seen_product_ids, found, new_product_ids,
                                         batch_i>>
                     ELSE IF res.ids = <<>>
                     THEN /\ pc' = "category"
                          /\ cat_i' = cat_i + 1
                          /\ UNCHANGED <<seen_product_ids, found, new_product_ids, batch_i>>
                     ELSE /\ seen_product_ids' = seen_product_ids \cup Elems(res.ids)
                          /\ found' = found \cup Elems(res.ids)
                          /\ new_product_ids' = newIds
                          /\ batch_i' = 0
                          /\ IF newIds = <<>>
                             THEN pc' = "category" /\ cat_i' = cat_i + 1
                             ELSE pc' = "batch" /\ UNCHANGED cat_i
    /\ UNCHANGED <<site, limit, supa_env, collected, earlier, upsert_i, upsert_calls,
                   success_count, result, model_state>>

\* batch_ids = new_product_ids[i:i + batch_size] of the batch numbered b
BatchIds(ids, b) == SubSeq(ids, b * BatchSize + 1, Min((b + 1) * BatchSize, Len(ids)))

\* Lines 273-349: one batch (its request and its item loop), or the end of
\* the batch loop with the limit test that leaves the category loop.
FetchBatch ==
    /\ pc = "batch"
    /\ UNCHANGED discovery
    /\ UNCHANGED <<embVars, rowVars, scraperVars>>
    /\ IF batch_i * BatchSize >= Len(new_product_ids)
       THEN /\ IF LimitReached(limit, collected)
               THEN pc' = "persist" /\ UNCHANGED cat_i
               ELSE pc' = "category" /\ cat_i' = cat_i + 1
            /\ UNCHANGED <<requests, batch_i, collected, model_state>>
       ELSE LET batch_ids == BatchIds(new_product_ids, batch_i)
            IN  /\ UNCHANGED cat_i
                /\ \/ /\ requests' = Append(requests,
                                            ProductsRequest(ProductsUrl(Cat.id, batch_ids),
                                                            batch_ids, FALSE))
                      /\ pc' = IF Caught("batch") THEN "batch" ELSE "raised"
                      /\ batch_i' = batch_i + 1
                      /\ UNCHANGED <<collected, model_state>>
                   \/ /\ requests' = Append(requests,
                                            ProductsRequest(ProductsUrl(Cat.id, batch_ids),
                                                            batch_ids, TRUE))
                      /\ \E batch_products \in Responses(batch_ids),
                         load_ok \in LoadOutcomes(model_state) :
                         \E outs \in [1..Len(batch_products) -> RunAttempts] :
                            LET r == ProcessItems(batch_products, 1, collected, model_state,
                                                  site.source, limit, load_ok, outs)
                            IN  /\ collected' = r.collected
                                /\ model_state' = r.model
                                /\ IF r.raised /\ ~Caught("batch")
                                   THEN pc' = "raised" /\ UNCHANGED batch_i
                                   ELSE IF ~r.raised /\ LimitReached(limit, r.collected)
                                   THEN pc' = "persist" /\ UNCHANGED batch_i
                                   ELSE pc' = "batch" /\ batch_i' = batch_i + 1
    /\ UNCHANGED <<site, limit, supa_env, id_source, new_product_ids,
                   seen_product_ids, found, earlier, upsert_i, upsert_calls,
                   success_count, result>>

\* One db.upsert_products call: whether it is a per-row call of the
\* fallback (line 374) or a batch call (line 366), the positions in
\* collected of the rows it was given, the rows, and whether it returned
\* (ok) or raised.
UpsertCall(fallback, idx, rows, ok) ==
    [fallback |-> fallback, idx |-> idx, rows |-> rows, ok |-> ok]

RECURSIVE RowCallsUntilFailure(_, _, _, _)
RowCallsUntilFailure(batch, first, row_ok, k) ==
    IF k > Len(batch) THEN <<>>
    ELSE <<UpsertCall(TRUE, <<first + k - 1>>, <<batch[k]>>, row_ok[k])>>
         \o (IF row_ok[k] THEN RowCallsUntilFailure(batch, first, row_ok, k + 1)
             ELSE <<>>)

\* A faulty variant of RowFallback: the first row that fails ends the loop.
RowFallbackStopping(batch, first, row_ok) ==
    RowCallsUntilFailure(batch, first, row_ok, 1)

\* Lines 372-377: the per-row calls after a batch call raised. first is the
\* position in collected of the batch's first row; row_ok[k] is whether the
\* call for the batch's k-th row returns.
RowFallback(batch, first, row_ok) ==
    [k \in 1..Len(batch) |->
        UpsertCall(TRUE, <<first + k - 1>>, <<batch[k]>>, row_ok[k])]

\* Lines 366-377: the calls made for one batch.
UpsertBatchCalls(batch, first, batch_ok, row_ok) ==
    <<UpsertCall(FALSE, Range(first, first + Len(batch) - 1), batch, batch_ok)>>
        \o (IF batch_ok THEN <<>> ELSE RowFallback(batch, first, row_ok))

\* What one batch adds to success_count.
BatchSuccess(batch, batch_ok, row_ok) ==
    IF batch_ok THEN Len(batch)
    ELSE Cardinality({k \in 1..Len(batch) : row_ok[k]})

\* The value run_for_site returns (line 383).
ReturnValue(coll, count) == Len(coll)

\* A faulty variant of CredentialsSet: one of the two is enough.
CredentialsEither(env) == Truthy(env.url) \/ Truthy(env.key)

\* supa_env["url"] and supa_env["key"] (line 359)
CredentialsSet(env) == Truthy(env.url) /\ Truthy(env.key)

\* Lines 357-363 and 380-383: persistence is entered only with rows and
\* credentials; otherwise the function returns.
Persist ==
    /\ pc = "persist"
    /\ UNCHANGED discovery
    /\ UNCHANGED <<embVars, rowVars, scraperVars>>
    /\ IF collected # <<>> /\ CredentialsSet(supa_env)
       THEN /\ pc' = "upsert"
            /\ UNCHANGED result
       ELSE /\ pc' = "done"
            /\ result' = ReturnValue(collected, success_count)
    /\ upsert_i' = 0
    /\ success_count' = 0
    /\ UNCHANGED <<site, limit, supa_env, cat_i, id_source, new_product_ids, batch_i,
                   collected, seen_product_ids, requests, found, earlier,
                   upsert_calls, model_state>>

\* Lines 364-383: one upsert batch with its per-row fallback, or the return.
UpsertBatch ==
    /\ pc = "upsert"
    /\ UNCHANGED discovery
    /\ UNCHANGED <<embVars, rowVars, scraperVars>>
    /\ IF upsert_i * UpsertBatchSize >= Len(collected)
       THEN /\ pc' = "done"
            /\ result' = ReturnValue(collected, success_count)
            /\ UNCHANGED <<upsert_i, upsert_calls, success_count>>
       ELSE LET first == upsert_i * UpsertBatchSize + 1
                batch == SubSeq(collected, first,
                                Min(first + UpsertBatchSize - 1, Len(collected)))
            IN  \E batch_ok \in BOOLEAN, row_ok \in [1..Len(batch) -> BOOLEAN] :
                   /\ upsert_calls' = upsert_calls
                         \o UpsertBatchCalls(batch, first, batch_ok, row_ok)
                   /\ success_count' = success_count + BatchSuccess(batch, batch_ok, row_ok)
                   /\ upsert_i' = upsert_i + 1
                   /\ pc' = IF \/ (~batch_ok /\ ~Caught("upsert_batch"))
                                \/ (/\ ~batch_ok
                                    /\ \E k \in 1..Len(batch) : ~row_ok[k]
                                    /\ ~Caught("upsert_row"))
                             THEN "raised" ELSE "upsert"
                   /\ UNCHANGED result
    /\ UNCHANGED <<site, limit, supa_env, cat_i, id_source, new_product_ids, batch_i,
                   collected, seen_product_ids, requests, found, earlier, model_state>>

\* ---- the configurations run_for_site is started with
Prewarm == <<"https://www.bershka.com/us/">>

PlainCategories == [c \in 1..MaxCategories |-> CatConf("10", None, <<>>, <<>>)]

\* Every list of MaxCategories categories without a category_api_template;
\* with one, the list whose categories differ most; and the two sites the
\* function leaves before its category loop; and one whose first category
\* has a fallback_ids piece that is not a number.
Sites ==
    [kind         : {"ok"},
     source       : {"scraper"},
     prewarm      : {Prewarm},
     has_template : {FALSE},
     categories   : [1..MaxCategories -> CatConfs]]
    \cup
    [kind         : {"ok"},
     source       : {"scraper"},
     prewarm      : {Prewarm},
     has_template : {TRUE},
     categories   : {[c \in 1..MaxCategories |->
                         IF c = 1 THEN CatConf("20", MetaUrl("20"), <<>>, <<1, NoId, 2>>)
                         ELSE CatConf("10", None, <<>>, <<>>)]}]
    \cup
    [kind         : SiteKinds \ {"ok"},
     source       : {"scraper"},
     prewarm      : {Prewarm},
     has_template : {FALSE},
     categories   : {PlainCategories}]
    \cup
    [kind         : {"ok"},
     source       : {"scraper"},
     prewarm      : {Prewarm},
     has_template : {FALSE},
     categories   : {[c \in 1..MaxCategories |->
                         IF c = 1 THEN CatConf("40", None, <<>>, <<1, NotANumber>>)
                         ELSE CatConf("10", None, <<>>, <<>>)]}]

\* get_supabase_env(), given what SUPABASE_URL and SUPABASE_KEY hold ("" is
\* also what an unset variable gives).
get_supabase_env(url, key) == [url |-> url, key |-> key]

SupaEnvs ==
    {get_supabase_env(url, key) :
        url \in {"", "https://project.supabase.co"}, key \in {"", "service-key"}}

\* The arguments of a run: run_for_site(site, ..., supa_env, limit). Without
\* credentials only the default of --limit, 0, is tried.
Runs ==
    {r \in [site : Sites, limit : 0..MaxLimit, supa_env : SupaEnvs] :
        ~CredentialsSet(r.supa_env) => r.limit = 0}

Init ==
    /\ pc = "start"
    /\ \E r \in Runs : site = r.site /\ limit = r.limit /\ supa_env = r.supa_env
    /\ cat_i = 0
    /\ id_source = "none"
    /\ discovery = NoDiscovery
    /\ new_product_ids = <<>>
    /\ batch_i = 0
    /\ collected = <<>>
    /\ seen_product_ids = {}
    /\ requests = <<>>
    /\ found = {}
    /\ earlier = {}
    /\ upsert_i = 0
    /\ upsert_calls = <<>>
    /\ success_count = 0
    /\ result = 0
    /\ model_state = "unloaded"
    /\ EmbedIdle
    /\ RowIdle
    /\ ScraperIdle
    /\ PoolIdle

Next ==
    \/ Start
    \/ NextCategory
    \/ DirectFetch
    \/ Discover
    \/ FetchBatch
    \/ Persist
    \/ UpsertBatch

vars == <<cliVars, model_state, embVars, rowVars, scraperVars>>

Spec == Init /\ [][Next]_vars


\* run_for_site not running.
CliIdle ==
    /\ pc = "idle"
    /\ site = [kind |-> "none"]
    /\ limit = 0
    /\ supa_env = get_supabase_env("", "")
    /\ cat_i = 0
    /\ id_source = "none"
    /\ discovery = NoDiscovery
    /\ new_product_ids = <<>>
    /\ batch_i = 0
    /\ collected = <<>>
    /\ seen_product_ids = {}
    /\ requests = <<>>
    /\ found = {}
    /\ earlier = {}
    /\ upsert_i = 0
    /\ upsert_calls = <<>>
    /\ success_count = 0
    /\ result = 0

\* ------------------------------------ get_image_embedding, call after call
\* The model is loaded at most once per process, so the calls of one process
\* share model_state.
EmbedInit ==
    /\ model_state = "unloaded"
    /\ EmbedIdle
    /\ CliIdle
    /\ RowIdle
    /\ ScraperIdle
    /\ PoolIdle

\* One call get_image_embedding(image_url), with what the model load and
\* each attempt come to; made is what the attempts it made came to.
EmbedCall ==
    /\ emb_n < MaxCalls
    /\ \E image_url \in ImageUrls, load_ok \in LoadOutcomes(model_state),
          outs \in [1..max_retries -> AttemptOutcomes] :
          LET r == get_image_embedding(image_url, model_state, load_ok, outs)
          IN  /\ emb_call' = [fn |-> "get_image_embedding",
                              image_url |-> image_url, before |-> model_state,
                              ret |-> r.ret, fetched |-> r.fetched,
                              sleeps |-> r.sleeps, mismatch |-> r.mismatch,
                              made |-> [k \in 1..Len(r.fetched) |-> outs[k]]]
              /\ model_state' = r.model
    /\ emb_n' = emb_n + 1
    /\ UNCHANGED <<cliVars, rowVars, scraperVars>>

Texts == {None, "", " ", "Tee"}

\* One call get_text_embedding(text); image_url of emb_call holds the text.
TextEmbedCall ==
    /\ emb_n < MaxCalls
    /\ \E text \in Texts, load_ok \in LoadOutcomes(model_state), out \in TextOutcomes :
          LET r == get_text_embedding(text, model_state, load_ok, out)
          IN  /\ emb_call' = [fn |-> "get_text_embedding",
                              image_url |-> text, before |-> model_state,
                              ret |-> r.ret, fetched |-> r.fetched,
                              sleeps |-> r.sleeps, mismatch |-> r.mismatch,
                              made |-> <<>>]
              /\ model_state' = r.model
    /\ emb_n' = emb_n + 1
    /\ UNCHANGED <<cliVars, rowVars, scraperVars>>

EmbedNext == EmbedCall \/ TextEmbedCall

SpecEmbed == EmbedInit /\ [][EmbedNext]_vars


\* ------------------------------------------------- src/bershka_scraper.py
\* A key the dictionary does not have.
Absent == "<absent>"

\* bundle_product.get('nameEn', bundle_product.get('name', ''))
BundleTitle(bundle_product) ==
    IF bundle_product.nameEn # Absent THEN bundle_product.nameEn
    ELSE IF bundle_product.name # Absent THEN bundle_product.name
    ELSE ""

\* _extract_single_product: None without an image, else the product, whose id
\* is the colour's reference and id and whose product_url is the variant's.
\* variant.image_url is what _get_best_image_url(variant) gives.
_extract_single_product(bundle_product, variant, color) ==
    IF ~Truthy(variant.image_url) THEN None
    ELSE [id          |-> color.reference \o "-" \o ToString(color.id),
          source      |-> "scraper",
          title       |-> BundleTitle(bundle_product),
          image_url   |-> variant.image_url,
          product_url |-> "https://www.bershka.com/en/" \o variant.productUrl \o ".html",
          embedding   |-> NoVector]

\* ---- rows made from bounded inputs, by both row makers
UrlA == "https://www.bershka.com/us/tee-c0p1.html"

UrlB == "https://www.bershka.com/us/top-c0p2.html"

\* The inputs of to_supabase_row.
Raws ==
    [external_id : {NoId, 1, 2}, product_id : {NoId}, title : {"Tee"},
     image_url : {GoodImage}, source : {"scraper", "api"},
     product_url : {None, UrlA, UrlB}]

\* A bundle product with both names, with name only, and with neither.
Bundles ==
    { [nameEn |-> "Tee", name |-> "Camiseta"],
      [nameEn |-> Absent, name |-> "Camiseta"],
      [nameEn |-> Absent, name |-> Absent] }

Variants == [productUrl : {"tee-c0p1", "top-c0p2"}, image_url : {GoodImage}]

Colors == [reference : {"R1", "R2"}, id : {1, 2}]

RowInit ==
    /\ produced_rows = <<>>
    /\ model_state = "unloaded"
    /\ CliIdle
    /\ EmbedIdle
    /\ ScraperIdle
    /\ PoolIdle

\* to_supabase_row(raw) on one more input
TransformRow ==
    /\ Len(produced_rows) < MaxRows
    /\ \E raw \in Raws :
          produced_rows' = Append(produced_rows,
                                  [via |-> "to_supabase_row", row |-> to_supabase_row(raw)])
    /\ UNCHANGED <<cliVars, model_state, embVars, scraperVars>>

\* _extract_single_product(bundle_product, variant, color) on one more input
ExtractProduct ==
    /\ Len(produced_rows) < MaxRows
    /\ \E bundle_product \in Bundles, variant \in Variants, color \in Colors :
          produced_rows' = Append(produced_rows,
                                  [via |-> "_extract_single_product",
                                   row |-> _extract_single_product(bundle_product,
                                                                   variant, color)])
    /\ UNCHANGED <<cliVars, model_state, embVars, scraperVars>>

RowNext == TransformRow \/ ExtractProduct

\* ---- to_supabase_row, its price and gender
Prices ==
    {NoPrice, IntPrice(0), IntPrice(999), IntPrice(2990), IntPrice(100000),
     FloatPrice(299, 1), FloatPrice(1500, 0),
     StrPrice("2990"), StrPrice("29.9"), StrPrice("29.90"), StrPrice("29,90"),
     StrPrice("1.299,00"), StrPrice("1.234.5"), StrPrice(" EUR 12 "), StrPrice(""),
     StrPrice("n/a")}

Genders == {None, "", "MAN", "woman", " Men ", "women", "unisex", "kids"}

FieldRaws == [price : Prices, gender : Genders]

\* The price and gender of to_supabase_row(raw).
FieldsRow(raw) == [price |-> RowPrice(raw), gender |-> RowGender(raw)]

FieldsInit ==
    /\ produced_rows = <<>>
    /\ model_state = "unloaded"
    /\ CliIdle
    /\ EmbedIdle
    /\ ScraperIdle
    /\ PoolIdle

\* to_supabase_row(raw) on a raw record
TransformFields ==
    /\ produced_rows = <<>>
    /\ \E raw \in FieldRaws :
          produced_rows' = <<[raw |-> raw, row |-> FieldsRow(raw)]>>
    /\ UNCHANGED <<cliVars, model_state, embVars, scraperVars>>

\* to_supabase_row on the row the call before it made
TransformAgain ==
    /\ Len(produced_rows) = 1
    /\ LET raw == produced_rows[1].row
       IN  produced_rows' = Append(produced_rows, [raw |-> raw, row |-> FieldsRow(raw)])
    /\ UNCHANGED <<cliVars, model_state, embVars, scraperVars>>

FieldsNext == TransformFields \/ TransformAgain

SpecFields == FieldsInit /\ [][FieldsNext]_vars

\* ---- to_supabase_row, its images and metadata (transform.py 76-108, 196-217)
RECURSIVE FlattenUrls(_)
\* _flatten_urls: the stripped strings of all_image_urls that are not blank
\* and are no data: URI, in order (a nested list is modelled flattened).
FlattenUrls(urls) ==
    IF urls = <<>> THEN <<>>
    ELSE LET u == Strip(urls[1])
         IN  (IF u # "" /\ ~StartsWith(u, "data:") THEN <<u>> ELSE <<>>)
                 \o FlattenUrls(Tail(urls))

RECURSIVE Unique(_, _)
\* [u for u in all_urls if u and u not in seen_url and not seen_url.add(u)]
Unique(urls, seen_url) ==
    IF urls = <<>> THEN <<>>
    ELSE IF urls[1] \in seen_url THEN Unique(Tail(urls), seen_url)
    ELSE <<urls[1]>> \o Unique(Tail(urls), seen_url \cup {urls[1]})

\* unique_urls
UniqueUrls(raw) == Unique(FlattenUrls(raw.all_image_urls), {})

\* row["image_url"] (lines 94-99): raw's image_url, else the first of
\* unique_urls, repaired by _fix_image_url.
RowMainUrl(raw) ==
    LET image_url == IF ~Truthy(raw.image_url) /\ UniqueUrls(raw) # <<>>
                     THEN UniqueUrls(raw)[1] ELSE raw.image_url
    IN  IF Truthy(image_url) THEN _fix_image_url(image_url) ELSE image_url

\* others (lines 104-105): unique_urls without main_url, then repaired.
Others(raw) ==
    LET others == Filter(UniqueUrls(raw), {RowMainUrl(raw)})
    IN  [k \in 1..Len(others) |-> _fix_image_url(others[k])]

RECURSIVE Join(_, _)
\* sep.join(seq)
Join(seq, sep) ==
    IF seq = <<>> THEN ""
    ELSE IF Len(seq) = 1 THEN seq[1]
    ELSE seq[1] \o sep \o Join(Tail(seq), sep)

\* row["additional_images"]
RowAdditionalImages(raw) ==
    IF Others(raw) = <<>> THEN None ELSE Join(Others(raw), " , ")

\* The keys the model's metadata and _meta mappings can hold; a mapping is
\* a function on them, Absent for a key it does not have. A raw input
\* without _meta has the mapping without keys (update() with it adds nothing).
MetaKeys ==
    {"source", "id", "color", "_raw_item", "_raw_html_len", "original_price",
     "original_currency"}

Mapping(pairs) ==
    [k \in MetaKeys |-> IF \E pr \in pairs : pr[1] = k
                        THEN (CHOOSE pr \in pairs : pr[1] = k)[2] ELSE Absent]

\* row["metadata"] (lines 196-217)
RowMetadata(raw) ==
    LET base == Mapping({pr \in {<<"source", RowSource(raw)>>, <<"id", RowId(raw)>>} :
                            pr[2] \notin {None, ""}})
        updated == [k \in MetaKeys |->
                       IF raw._meta[k] # Absent THEN raw._meta[k] ELSE base[k]]
        context == [k \in MetaKeys |->
                       IF k = "_raw_item" /\ raw._raw_item # None THEN raw._raw_item
                       ELSE IF k = "_raw_html_len" /\ raw._raw_html_len # None
                            THEN raw._raw_html_len
                       ELSE updated[k]]
    IN  [k \in MetaKeys |->
            IF k = "original_price" /\ raw.price # None /\ context[k] = Absent
            THEN raw.price
            ELSE IF k = "original_currency" /\ raw.currency # None /\ context[k] = Absent
                 THEN raw.currency
            ELSE context[k]]

ImgA == "https://static.bershka.net/assets/public/1/a.jpg"
ImgB == "https://static.bershka.net/assets/public/1/b.jpg"

MainUrls == {None, "", ImgA, "/assets/public/1/a.jpg", "//cdn.example.com/1/c.jpg",
             " http://cdn.example.com/1/d.jpg "}

UrlLists ==
    { <<>>, <<ImgA>>, <<ImgA, ImgB>>, <<ImgB, ImgA, ImgB>>,
      <<"", "data:image/gif;base64,R0", ImgB>>,
      <<"/assets/public/1/a.jpg", ImgB>>,
      <<ImgB, "/assets/public/1/b.jpg">>,
      <<" " \o ImgB, ImgB, ImgA>>,
      <<"//cdn.example.com/1/c.jpg">> }

Metas ==
    { Mapping({}),
      Mapping({<<"color", "red">>}),
      Mapping({<<"source", "feed">>, <<"original_price", "19.99">>}),
      Mapping({<<"_raw_item", "kept">>, <<"color", "red">>}),
      Mapping({<<"id", "X9">>, <<"original_currency", "USD">>}) }

ImageRaw(image_url, urls, meta, raw_item, price, currency) ==
    [external_id |-> 1, product_id |-> NoId, product_url |-> UrlA, source |-> "scraper",
     image_url |-> image_url, all_image_urls |-> urls, _meta |-> meta,
     _raw_item |-> raw_item, _raw_html_len |-> None, price |-> price,
     currency |-> currency]

\* Raw inputs that differ in their images, and raw inputs that differ in
\* what the metadata is built from.
ImageRaws ==
    {ImageRaw(u, l, Mapping({}), None, None, None) : u \in MainUrls, l \in UrlLists}
        \cup {ImageRaw(ImgA, <<>>, m, i, p, c) :
                  m \in Metas, i \in {None, "item"}, p \in {None, "2990", "29,90"},
                  c \in {None, "EUR"}}

\* The image_url, additional_images and metadata of to_supabase_row(raw).
ImagesRow(raw) ==
    [image_url         |-> RowMainUrl(raw),
     additional_images |-> RowAdditionalImages(raw),
     metadata          |-> RowMetadata(raw)]

ImagesInit ==
    /\ produced_rows = <<>>
    /\ model_state = "unloaded"
    /\ CliIdle
    /\ EmbedIdle
    /\ ScraperIdle
    /\ PoolIdle

\* to_supabase_row(raw) on a raw record
TransformImages ==
    /\ produced_rows = <<>>
    /\ \E raw \in ImageRaws :
          produced_rows' = <<[raw |-> raw, row |-> ImagesRow(raw)]>>
    /\ UNCHANGED <<cliVars, model_state, embVars, scraperVars>>

ImagesNext == TransformImages

SpecImages == ImagesInit /\ [][ImagesNext]_vars

SpecRow == RowInit /\ [][RowNext]_vars


\* ---- BershkaScraper.run_full_scrape
\* What one generate_embedding call meets: a response that is not 200, an
\* exception, an output without embeddings, a 0-d output, or a vector.
EmbedResultKinds == {"bad_status", "raised", "no_output", "scalar", "vector"}

EmbedResults ==
    [kind : EmbedResultKinds \ {"vector"}, len : {0}]
        \cup [kind : {"vector"}, len : {0, EMBED_DIM - 1, EMBED_DIM}]

\* _process_image_embedding: the list it returns, by its length; a float
\* becomes a list of one.
_process_image_embedding(out) ==
    IF out.kind = "scalar" THEN 1
    ELSE IF out.kind = "vector" THEN out.len
    ELSE NoVector

\* generate_embedding(image_url)
generate_embedding(image_url, out) ==
    IF out.kind \in {"bad_status", "raised"} THEN NoVector
    ELSE _process_image_embedding(out)

\* `if embedding:` of process_products_batch: None and the empty list fail it.
EmbeddingKept(embedding) == embedding # NoVector /\ embedding # 0

RECURSIVE process_products_batch(_, _, _)
\* process_products_batch(products) from the k-th product on; outs[k] is what
\* the k-th product's generate_embedding call meets.
process_products_batch(products, outs, k) ==
    IF k > Len(products) THEN <<>>
    ELSE LET product   == products[k]
             embedding == IF Truthy(product.image_url)
                          THEN generate_embedding(product.image_url, outs[k])
                          ELSE NoVector
         IN  (IF EmbeddingKept(embedding)
              THEN <<[product EXCEPT !.embedding = embedding]>> ELSE <<>>)
             \o process_products_batch(products, outs, k + 1)

RECURSIVE FilterDuplicates(_, _, _, _)
\* Lines 530-535: the category's products whose product_url was not seen.
FilterDuplicates(products, k, all, seen) ==
    IF k > Len(products) THEN [all |-> all, seen |-> seen]
    ELSE LET product_url == products[k].product_url
         IN  IF Truthy(product_url) /\ product_url \notin seen
             THEN FilterDuplicates(products, k + 1, Append(all, products[k]),
                                   seen \cup {product_url})
             ELSE FilterDuplicates(products, k + 1, all, seen)

\* What one table('products').upsert(batch).execute() comes to: an
\* exception, a result with every row, a result without data.
SaveOutcomes == {"raise", "all", "none"}

RECURSIVE SaveBatches(_, _, _, _, _, _)
\* The batch loop of save_to_supabase from batch b (0-based) on: the upserts
\* made, the rows the store took (those of the upserts that answered with
\* their rows) and the count returned, 0 as soon as one upsert raises.
SaveBatches(products, b, outs, upserts, written, inserted_count) ==
    IF b * SaveBatchSize >= Len(products)
    THEN [upserts |-> upserts, written |-> written, count |-> inserted_count]
    ELSE LET batch == SubSeq(products, b * SaveBatchSize + 1,
                             Min((b + 1) * SaveBatchSize, Len(products)))
             made  == Append(upserts, batch)
             rows  == IF outs[b + 1] = "all" THEN Len(batch) ELSE 0
         IN  IF outs[b + 1] = "raise"
             THEN [upserts |-> made, written |-> written, count |-> 0]
             ELSE SaveBatches(products, b + 1, outs, made, written + rows,
                              inserted_count + rows)

\* The products scrape_category can give for a category.
ScrapedProduct(productUrl, reference, color_id) ==
    _extract_single_product([nameEn |-> "Tee", name |-> Absent],
                            [productUrl |-> productUrl, image_url |-> GoodImage],
                            [reference |-> reference, id |-> color_id])

ScrapedLists ==
    { <<>>,
      <<ScrapedProduct("tee-c0p1", "R1", 1), ScrapedProduct("tee-c0p1", "R1", 2)>>,
      <<ScrapedProduct("top-c0p2", "R2", 1), ScrapedProduct("tee-c0p1", "R1", 1)>>,
      <<ScrapedProduct("hat-c0p3", "R3", 1), ScrapedProduct("top-c0p2", "R2", 1),
        ScrapedProduct("tee-c0p1", "R1", 2)>> }

ScraperInit ==
    /\ scr_pc = "start"
    /\ categories \in 0..MaxScrapeCategories
    /\ scr_cat = 0
    /\ all_products = <<>>
    /\ seen_product_urls = {}
    /\ processed_products = <<>>
    /\ scr_batch = 0
    /\ saved = [given |-> <<>>, upserts |-> <<>>, written |-> 0, count |-> 0]
    /\ scr_result = [error |-> FALSE, total_collected |-> 0, processed |-> 0, saved |-> 0]
    /\ PoolIdle
    /\ model_state = "unloaded"
    /\ CliIdle
    /\ EmbedIdle
    /\ RowIdle

\* Lines 511-516: without categories the scrape is given up.
ScraperStart ==
    /\ scr_pc = "start"
    /\ IF categories = 0
       THEN /\ scr_pc' = "done"
            /\ scr_result' = [scr_result EXCEPT !.error = TRUE]
       ELSE /\ scr_pc' = "scrape"
            /\ UNCHANGED scr_result
    /\ scr_cat' = 1
    /\ UNCHANGED <<categories, all_products, seen_product_urls, processed_products,
                   scr_batch, saved>>
    /\ UNCHANGED <<cliVars, model_state, embVars, rowVars, poolVars>>

\* Lines 523-541: one category scraped and its new products kept.
ScrapeCategory ==
    /\ scr_pc = "scrape"
    /\ IF scr_cat > categories
       THEN /\ scr_pc' = "process"
            /\ UNCHANGED <<scr_cat, all_products, seen_product_urls>>
       ELSE \E products \in ScrapedLists :
               LET f == FilterDuplicates(products, 1, all_products, seen_product_urls)
                   stop == PRODUCT_LIMIT > 0 /\ Len(f.all) >= PRODUCT_LIMIT
               IN  /\ all_products' = IF stop THEN SubSeq(f.all, 1, PRODUCT_LIMIT)
                                      ELSE f.all
                   /\ seen_product_urls' = f.seen
                   /\ scr_pc' = IF stop THEN "process" ELSE "scrape"
                   /\ scr_cat' = scr_cat + 1
    /\ scr_batch' = 0
    /\ UNCHANGED <<categories, processed_products, saved, scr_result>>
    /\ UNCHANGED <<cliVars, model_state, embVars, rowVars, poolVars>>

\* Lines 548-554: one batch of all_products through process_products_batch.
ProcessBatch ==
    /\ scr_pc = "process"
    /\ IF scr_batch * ScraperBatchSize >= Len(all_products)
       THEN /\ scr_pc' = "save"
            /\ UNCHANGED <<processed_products, scr_batch>>
       ELSE LET batch == SubSeq(all_products, scr_batch * ScraperBatchSize + 1,
                                Min((scr_batch + 1) * ScraperBatchSize,
                                    Len(all_products)))
            IN  \E outs \in [1..Len(batch) -> EmbedResults] :
                   /\ processed_products' =
                         processed_products \o process_products_batch(batch, outs, 1)
                   /\ scr_batch' = scr_batch + 1
                   /\ scr_pc' = "process"
    /\ UNCHANGED <<categories, scr_cat, all_products, seen_product_urls, saved,
                   scr_result>>
    /\ UNCHANGED <<cliVars, model_state, embVars, rowVars, poolVars>>

\* Lines 556-576: save_to_supabase(processed_products) and the result.
SaveToSupabase ==
    /\ scr_pc = "save"
    /\ \E outs \in [1..Len(processed_products) -> SaveOutcomes] :
          LET r == SaveBatches(processed_products, 0, outs, <<>>, 0, 0)
          IN  /\ saved' = [given |-> processed_products, upserts |-> r.upserts,
                           written |-> r.written, count |-> r.count]
              /\ scr_result' = [error |-> FALSE,
                                total_collected |-> Len(all_products),
                                processed |-> Len(processed_products),
                                saved |-> r.count]
    /\ scr_pc' = "done"
    /\ UNCHANGED <<categories, scr_cat, all_products, seen_product_urls,
                   processed_products, scr_batch>>
    /\ UNCHANGED <<cliVars, model_state, embVars, rowVars, poolVars>>

ScraperNext ==
    \/ ScraperStart
    \/ ScrapeCategory
    \/ ProcessBatch
    \/ SaveToSupabase

SpecScraper == ScraperInit /\ [][ScraperNext]_vars


\* ------------------------------------------------------------ properties
Calls == 1..Len(upsert_calls)

\* The per-row calls made for the row at position i of collected.
RowCallsFor(i) ==
    {c \in Calls : upsert_calls[c].fallback /\ upsert_calls[c].idx = <<i>>}

\* The batch calls whose batch holds the row at position i of collected.
BatchCallsFor(i) ==
    {c \in Calls : ~upsert_calls[c].fallback /\ i \in Elems(upsert_calls[c].idx)}

\* The parsed fallback list of the category numbered cat.
Fallback(cat) == ParseFallback(site.categories[cat].fallback)

\* C1: in run_for_site every row of collected, and every row passed to
\* db.upsert_products in a batch call or in the per-row fallback, carries an
\* embedding: a product whose embedding came back null is not collected and
\* not upserted.
C1_UpsertedRowsCarryEmbedding ==
    /\ \A k \in 1..Len(collected) : collected[k].embedding # NoVector
    /\ \A c \in Calls : \A k \in 1..Len(upsert_calls[c].rows) :
          upsert_calls[c].rows[k].embedding # NoVector

\* A finished run that made batch calls and per-row calls and collected
\* fewer rows than it had seen identifiers.
C1_Reached ==
    /\ pc = "done"
    /\ \E c \in Calls : upsert_calls[c].fallback
    /\ Len(collected) < Cardinality(seen_product_ids)

\* C2: an identifier discovered or fetched for an earlier category is never
\* among the identifiers of a products request made for a later category.
C2_NoSecondRequest ==
    \A k \in 1..Len(requests) :
        requests[k].kind \in {"direct", "products"}
            => Elems(requests[k].ids) \cap earlier = {}

\* C3 as stated: when the discovery API gave no identifiers for any URL of a
\* category with a non-empty fallback list, the identifiers used for the
\* category are the fallback list.
C3_FallbackWheneverApiFails ==
    (discovery.ran /\ discovery.api = <<>> /\ Fallback(discovery.cat) # <<>>)
        => discovery.product_ids = Fallback(discovery.cat)

\* C3 amended: when neither the discovery API nor the rendered page gave
\* identifiers for a category with a non-empty fallback list, the identifiers
\* used for the category are the fallback list, never an empty list; and the
\* fallback list is used only when both earlier strategies gave none.
C3_FallbackWhenApiAndPageFail ==
    /\ (discovery.ran /\ discovery.api = <<>> /\ discovery.page = <<>>
           /\ Fallback(discovery.cat) # <<>>)
          => /\ discovery.product_ids = Fallback(discovery.cat)
             /\ discovery.product_ids # <<>>
             /\ id_source = "fallback"
    /\ id_source = "fallback"
          => discovery.ran /\ discovery.api = <<>> /\ discovery.page = <<>>

\* The API and the page both failed and the category goes on with its
\* fallback list.
C3_Reached ==
    /\ discovery.ran
    /\ discovery.api = <<>>
    /\ discovery.page = <<>>
    /\ id_source = "fallback"
    /\ discovery.product_ids = Fallback(discovery.cat)
    /\ \E k \in 1..Len(requests) : requests[k].kind = "page"

\* C4: after a batch call that raised, each row of the batch is given to
\* exactly one per-row call, whether or not the per-row calls before it
\* raised; and in a finished run every collected row was in exactly one batch
\* call, so the batches after a failing one are upserted too.
C4_FailedBatchRowsUpsertedOnce ==
    /\ \A c \in Calls :
          (~upsert_calls[c].fallback /\ ~upsert_calls[c].ok)
             => \A k \in 1..Len(upsert_calls[c].idx) :
                   /\ Cardinality(RowCallsFor(upsert_calls[c].idx[k])) = 1
                   /\ \A d \in RowCallsFor(upsert_calls[c].idx[k]) :
                         /\ d > c
                         /\ upsert_calls[d].rows = <<collected[upsert_calls[c].idx[k]]>>
    /\ (pc = "done" /\ upsert_calls # <<>>)
          => \A i \in 1..Len(collected) : Cardinality(BatchCallsFor(i)) = 1

\* A finished run in which a batch of two rows raised, the per-row call for
\* its first row raised, the one for its second row returned, and a further
\* batch was upserted after it.
C4_Reached ==
    /\ pc = "done"
    /\ \E c \in Calls :
          /\ c + 3 <= Len(upsert_calls)
          /\ ~upsert_calls[c].fallback /\ ~upsert_calls[c].ok
          /\ Len(upsert_calls[c].idx) = 2
          /\ upsert_calls[c + 1].fallback /\ ~upsert_calls[c + 1].ok
          /\ upsert_calls[c + 2].fallback /\ upsert_calls[c + 2].ok
          /\ ~upsert_calls[c + 3].fallback

\* C5: two rows made by the same row maker with the same source and the same
\* product_url have the same id, whatever their other fields are.
C5_IdIsFunctionOfSourceAndUrl ==
    \A i, j \in 1..Len(produced_rows) :
        (/\ produced_rows[i].via = produced_rows[j].via
         /\ produced_rows[i].row.source = produced_rows[j].row.source
         /\ produced_rows[i].row.product_url = produced_rows[j].row.product_url)
            => produced_rows[i].row.id = produced_rows[j].row.id

\* C6: two rows made by the same row maker with the same source and distinct
\* product_url values have distinct ids.
C6_DistinctUrlsDistinctIds ==
    \A i, j \in 1..Len(produced_rows) :
        (/\ produced_rows[i].via = produced_rows[j].via
         /\ produced_rows[i].row.source = produced_rows[j].row.source
         /\ produced_rows[i].row.product_url # produced_rows[j].row.product_url)
            => produced_rows[i].row.id # produced_rows[j].row.id

\* C7: whatever the URL and whatever the model load and the attempts come
\* to, get_image_embedding returns null or a vector of exactly 768 components.
C7_NullOr768 == emb_call.ret = NoVector \/ emb_call.ret = EMBED_DIM

\* Among the calls made, one in which inference gave a vector of another
\* length and null was returned, after a call that returned a vector.
C7_Reached ==
    /\ emb_n = MaxCalls
    /\ emb_call.mismatch
    /\ emb_call.ret = NoVector
    /\ emb_call.before = "loaded"

\* C8: every row run_full_scrape hands to save_to_supabase carries an
\* embedding of exactly 768 components.
C8_SavedRowsHave768 ==
    \A k \in 1..Len(saved.given) : saved.given[k].embedding = EMBED_DIM

\* C9: with a limit greater than 0, once collected holds limit rows no
\* further request is issued and no further row is collected.
C9_NoWorkAfterLimit ==
    [][(limit > 0 /\ Len(collected) >= limit)
          => (Len(requests') <= Len(requests) /\ collected' = collected)]_vars

\* C10: the value run_for_site returns is the number of rows persisted
\* (success_count).
C10_ReturnsPersistedCount == pc = "done" => result = success_count

\* C11: when supa_env's url or key is empty, run_for_site makes no
\* db.upsert_products call, and from the persistence step it returns, with
\* the value it returns whenever it gets there.
C11_NoUpsertWithoutCredentials ==
    [][(supa_env.url = "" \/ supa_env.key = "")
          => /\ upsert_calls' = <<>>
             /\ pc' # "upsert"
             /\ pc = "persist" => (pc' = "done" /\ result' = ReturnValue(collected, 0))]_vars

\* A run that collected rows with the url empty and the key set, and returned.
C11_Reached ==
    /\ pc = "done"
    /\ supa_env.url = ""
    /\ supa_env.key # ""
    /\ collected # <<>>
    /\ upsert_calls = <<>>


\* An upper bound of the steps run_for_site has left: the upsert batches not
\* yet sent, and before the persistence step the categories not yet visited
\* and, within the category, the strategies and batches not yet tried.
StepsInCategory == 5 + MaxId
StepsInUpsert == 3 + MaxLimit + MaxCategories * MaxId

StepsLeft ==
    CASE pc = "start"    -> StepsInUpsert + (MaxCategories + 2) * StepsInCategory
      [] pc = "category" -> StepsInUpsert + (MaxCategories + 1 - cat_i) * StepsInCategory
                               + StepsInCategory - 1
      [] pc = "direct"   -> StepsInUpsert + (MaxCategories + 1 - cat_i) * StepsInCategory
                               + StepsInCategory - 2
      [] pc = "discover" -> StepsInUpsert + (MaxCategories + 1 - cat_i) * StepsInCategory
                               + StepsInCategory - 3
      [] pc = "batch"    -> StepsInUpsert + (MaxCategories + 1 - cat_i) * StepsInCategory
                               + StepsInCategory - 4 - batch_i
      [] pc = "persist"  -> StepsInUpsert
      [] pc = "upsert"   -> StepsInUpsert - 1 - upsert_i
      [] OTHER           -> 0

C13_PriceIdempotent ==
    Len(produced_rows) = 2 => produced_rows[2].row.price = produced_rows[1].row.price

\* C14: a row that _extract_single_product makes for a product with an
\* image has a title that is neither None nor empty, 'Unknown Product'
\* standing in for a product without nameEn and name.
C14_TitleNeverEmpty ==
    \A i \in 1..Len(produced_rows) :
        produced_rows[i].via = "_extract_single_product"
            => /\ produced_rows[i].row.title \notin {None, ""}
               /\ produced_rows[i].row.title \in {"Tee", "Camiseta", "Unknown Product"}

\* C15 as stated: the gender of every row is MAN, WOMAN, UNISEX or None.
C15_GenderInVocabulary ==
    \A i \in 1..Len(produced_rows) :
        produced_rows[i].row.gender \in {"MAN", "WOMAN", "UNISEX", None}

\* C15: the gender of a row is MAN, WOMAN or None, except that a raw gender
\* in which none of the words of the two lists occurs is passed on, stripped
\* and in upper case.
C15_GenderClosedOrPassedThrough ==
    \A i \in 1..Len(produced_rows) :
        LET raw_gender == produced_rows[i].raw.gender
            gender     == produced_rows[i].row.gender
        IN  IF /\ Truthy(raw_gender)
               /\ \A word \in ManWords \cup WomanWords :
                      ~Contains(Upper(Strip(raw_gender)), word)
            THEN gender = Upper(Strip(raw_gender))
            ELSE gender \in {"MAN", "WOMAN", None}

\* A row whose gender is neither of the three words nor None.
C15_Reached ==
    \E i \in 1..Len(produced_rows) :
        /\ produced_rows[i].raw.gender = "kids"
        /\ produced_rows[i].row.gender = "KIDS"


\* C16: once a model load has failed, every later get_image_embedding and
\* get_text_embedding call leaves the model in its failed state without
\* another load, returns null, and requests nothing.
C16_FailedLoadIsFinal ==
    [][model_state = "error"
          => /\ model_state' = "error"
             /\ emb_call'.before = "error"
             /\ emb_call'.ret = NoVector
             /\ emb_call'.fetched = <<>>]_vars

\* A call with a good image URL, made after a call whose load failed.
C16_Reached ==
    /\ emb_n = MaxCalls
    /\ emb_call.before = "error"
    /\ emb_call.fn = "get_image_embedding"
    /\ emb_call.image_url = GoodImage
    /\ emb_call.ret = NoVector


C18_RetriesUpToBound ==
    (emb_call.fn = "get_image_embedding" /\ emb_call.fetched # <<>>)
        => /\ Len(emb_call.fetched) <= max_retries
           /\ Len(emb_call.made) = Len(emb_call.fetched)
           /\ \A k \in 1..Len(emb_call.made) :
                 emb_call.made[k].kind # "vector"
                     => IF k < max_retries
                        THEN Len(emb_call.fetched) >= k + 1
                        ELSE emb_call.ret = NoVector

\* A call whose max_retries attempts all raised, and which returned null.
C18_Reached ==
    /\ Len(emb_call.fetched) = max_retries
    /\ \A k \in 1..max_retries : emb_call.made[k].kind \in {"fetch_error", "decode_error",
                                                            "infer_error"}
    /\ emb_call.ret = NoVector
    /\ ~emb_call.mismatch

\* C19 as stated: the wait before attempt n, counted from 1, is 2^(n-1).
C19_WaitIsTwoToNMinusOne ==
    \A n \in 2..Len(emb_call.fetched) : emb_call.sleeps[n - 1] = Pow2(n - 1)

\* C19: attempt 1 is made without a wait, and the wait before every later
\* attempt n, counted from 1, is 2^(n-2) seconds: 1 s before the second
\* attempt, 2 s before the third.
C19_WaitIsTwoToNMinusTwo ==
    /\ Len(emb_call.sleeps) = (IF emb_call.fetched = <<>> THEN 0
                               ELSE Len(emb_call.fetched) - 1)
    /\ \A n \in 2..Len(emb_call.fetched) : emb_call.sleeps[n - 1] = Pow2(n - 2)

\* A call that made max_retries attempts, and so waited before two of them.
C19_Reached ==
    /\ Len(emb_call.fetched) = max_retries
    /\ emb_call.sleeps = <<1, 2>>

\* C20: an attempt that computes a vector of a length other than 768 is the
\* last attempt of its call, and the call returns null.
C20_MismatchEndsCall ==
    \A k \in 1..Len(emb_call.made) :
        (emb_call.made[k].kind = "vector" /\ emb_call.made[k].len # 768)
            => /\ k = Len(emb_call.made)
               /\ Len(emb_call.fetched) = k
               /\ emb_call.ret = NoVector

\* A call whose first attempt gave a vector of 767 components.
C20_Reached ==
    /\ emb_call.fn = "get_image_embedding"
    /\ Len(emb_call.made) = 1
    /\ emb_call.made[1].kind = "vector"
    /\ emb_call.made[1].len = 767
    /\ Len(emb_call.fetched) = 1
    /\ emb_call.ret = NoVector


\* The URLs C21 is about: empty or missing, a data: URI, one with a video
\* indicator, one ending in a non-image extension, a Bershka URL that is not
\* on the static-asset host.
SkippedByClaim(image_url) ==
    \/ image_url \in {None, "", "  "}
    \/ StartsWith(image_url, "data:")
    \/ \E v \in {".mp4", ".m3u8", ".webm", "/video"} : Contains(Lower(image_url), v)
    \/ \E e \in {".html", ".json", ".js"} : EndsWith(Lower(image_url), e)
    \/ /\ Contains(Lower(image_url), "bershka")
       /\ ~StartsWith(image_url, "https://static.bershka.net/")

\* C21: for an empty or missing URL, a data: URI, a URL with a video
\* indicator or a non-image extension, or a Bershka URL off the static-asset
\* host, get_image_embedding returns null and requests nothing.
C21_SkippedWithoutRequest ==
    (emb_call.fn = "get_image_embedding" /\ SkippedByClaim(emb_call.image_url))
        => /\ emb_call.ret = NoVector
           /\ emb_call.fetched = <<>>
           /\ emb_call.made = <<>>

\* A call for a Bershka URL on the shop's host, made with the model loaded.
C21_Reached ==
    /\ emb_call.fn = "get_image_embedding"
    /\ emb_call.image_url = "https://www.bershka.com/img/photo.jpg"
    /\ emb_call.before = "loaded"
    /\ model_state = "loaded"
    /\ emb_call.ret = NoVector
    /\ emb_call.fetched = <<>>


\* C22: among the requests run_for_site issues for one category no URL
\* occurs twice.
C22_NoUrlRequestedTwice ==
    \A i, j \in 1..Len(requests) : i < j => requests[i].url # requests[j].url


\* C23: a step of the batch loop with a batch left requests that batch; when
\* the request fails, collected stays as it was and the loop goes on, in the
\* same category, with the batch after it.
C23_FailedBatchIsPassedOver ==
    [][(pc = "batch" /\ batch_i * BatchSize < Len(new_product_ids))
          => LET last == requests'[Len(requests')]
             IN  /\ Len(requests') = Len(requests) + 1
                 /\ last.kind = "products"
                 /\ last.ids = BatchIds(new_product_ids, batch_i)
                 /\ ~last.ok => /\ collected' = collected
                                /\ pc' = "batch"
                                /\ batch_i' = batch_i + 1
                                /\ cat_i' = cat_i
                                /\ new_product_ids' = new_product_ids]_vars

\* A category whose first batch request failed and whose second batch was
\* requested after it and gave a row.
C23_Reached ==
    /\ Len(requests) >= 2
    /\ requests[Len(requests) - 1].kind = "products"
    /\ ~requests[Len(requests) - 1].ok
    /\ requests[Len(requests)].kind = "products"
    /\ requests[Len(requests)].ok
    /\ collected # <<>>


\* C24: the price of a row is null or a string that reads as a number; a
\* price that cannot be parsed does not stay in the row as it came.
C24_PriceNullOrNumber ==
    \A i \in 1..Len(produced_rows) :
        LET price == produced_rows[i].row.price
        IN  \/ price = NoPrice
            \/ price.type = "str" /\ ParseFloat(price.s).ok


\* C27: a raw gender in which WOMEN, WOMAN, FEMALE, LADY or GIRL occurs, in
\* any letter case, gives the gender WOMAN; one in which only MEN, MAN,
\* MALE, GUY or BOY occurs gives MAN.
C27_WomenWordsGiveWoman ==
    \A i \in 1..Len(produced_rows) :
        LET raw_gender == produced_rows[i].raw.gender
            text       == Upper(raw_gender)
            women      == \E w \in {"WOMEN", "WOMAN", "FEMALE", "LADY", "GIRL"} :
                              Contains(text, w)
            men        == \E w \in {"MEN", "MAN", "MALE", "GUY", "BOY"} : Contains(text, w)
        IN  Truthy(raw_gender)
                => /\ women => produced_rows[i].row.gender = "WOMAN"
                   /\ (men /\ ~women) => produced_rows[i].row.gender = "MAN"


\* C25: a raw image_url "//host/path" gives the row "https://host/path", a
\* root-relative "/path" gives "https://static.bershka.net/path", and a URL
\* with a scheme is kept.
C25_SchemeNormalized ==
    \A i \in 1..Len(produced_rows) :
        LET image_url == produced_rows[i].raw.image_url
            u         == Strip(image_url)
        IN  Truthy(image_url)
                => produced_rows[i].row.image_url =
                       (IF StartsWith(u, "//") THEN "https:" \o u
                        ELSE IF StartsWith(u, "/") THEN "https://static.bershka.net" \o u
                        ELSE u)

RECURSIVE Occurrences(_, _, _)
\* How often t occurs in s at or after position i.
Occurrences(s, t, i) ==
    IF i + Len(t) - 1 > Len(s) THEN 0
    ELSE (IF SubSeq(s, i, i + Len(t) - 1) = t THEN 1 ELSE 0) + Occurrences(s, t, i + 1)

\* C26: additional_images does not hold the row's image_url and holds no
\* URL twice.
C26_AdditionalImagesDistinct ==
    \A i \in 1..Len(produced_rows) :
        LET row == produced_rows[i].row
        IN  row.additional_images # None
                => /\ Truthy(row.image_url) => ~Contains(row.additional_images, row.image_url)
                   /\ \A u \in {ImgA, ImgB} : Occurrences(row.additional_images, u, 1) <= 1

\* C28: every key of _meta is in the row's metadata with the value _meta
\* gave it.
C28_MetaValuesKept ==
    \A i \in 1..Len(produced_rows) :
        \A k \in MetaKeys :
            produced_rows[i].raw._meta[k] # Absent
                => produced_rows[i].row.metadata[k] = produced_rows[i].raw._meta[k]


\* C29: the count save_to_supabase returns, which run_full_scrape reports as
\* 'saved', is the number of rows the store took, the rows of the batches
\* that upserted before a later batch failed included.
C29_CountIsRowsWritten ==
    scr_pc = "done" /\ ~scr_result.error
        => /\ saved.count = saved.written
           /\ scr_result.saved = saved.written


\* ------------------------------------- src/bershka_scraper.py: the worker pool
\* main() runs run_full_scrape inside `async with BershkaScraper()`; the
\* scrape hands each image to self.executor and waits for it, and __aexit__
\* closes the session and shuts the executor down.  ctx.at is where the
\* coroutine is, ctx.exc what ended the scrape, ctx.left the jobs as the
\* scrape left them.  A job of executor.jobs is pending (queued), running
\* (a worker thread is in _process_image_embedding), done, or cancelled
\* (taken back before a worker started it).
JobStatuses(jobs) == [k \in 1..Len(jobs) |-> jobs[k].status]

Running(jobs) == {k \in 1..Len(jobs) : jobs[k].status = "running"}

\* ThreadPoolExecutor.shutdown(wait): with wait the call returns once no job
\* is queued or running.
ShutdownReturnsAtOnce(wait, jobs) == TRUE

ShutdownReturns(wait, jobs) ==
    wait => \A k \in 1..Len(jobs) : jobs[k].status \notin {"pending", "running"}

PoolInit ==
    /\ ctx = [at |-> "scrape", exc |-> None, calls |-> 0, left |-> <<>>]
    /\ session = "open"
    /\ executor = [shutdown |-> FALSE, jobs |-> <<>>]
    /\ model_state = "unloaded"
    /\ CliIdle
    /\ EmbedIdle
    /\ RowIdle
    /\ ScraperIdle

\* generate_embedding up to the await of run_in_executor: the download, and
\* for a 200 answer the job handed to the executor.
GenerateEmbedding ==
    /\ ctx.at = "scrape"
    /\ ctx.calls < MaxJobs
    /\ \E status \in {"200", "404", Raised} :
          IF status = "200"
          THEN /\ ~executor.shutdown
               /\ executor' = [executor EXCEPT !.jobs =
                                  Append(@, [status |-> "pending", ret |-> NoVector])]
               /\ ctx' = [ctx EXCEPT !.at = "awaiting", !.calls = @ + 1]
          ELSE /\ ctx' = [ctx EXCEPT !.calls = @ + 1]
               /\ UNCHANGED executor
    /\ UNCHANGED session
    /\ UNCHANGED <<cliVars, model_state, embVars, rowVars, scr_pc, categories, scr_cat,
                   all_products, seen_product_urls, processed_products, scr_batch,
                   saved, scr_result>>

\* A free worker thread of the executor takes a queued job.
WorkerStarts ==
    /\ \E k \in 1..Len(executor.jobs) :
          /\ executor.jobs[k].status = "pending"
          /\ Cardinality(Running(executor.jobs)) < MAX_WORKERS
          /\ executor' = [executor EXCEPT !.jobs[k].status = "running"]
    /\ UNCHANGED <<ctx, session>>
    /\ UNCHANGED <<cliVars, model_state, embVars, rowVars, scr_pc, categories, scr_cat,
                   all_products, seen_product_urls, processed_products, scr_batch,
                   saved, scr_result>>

\* _process_image_embedding returns in its thread: a vector, or None.
WorkerFinishes ==
    /\ \E k \in Running(executor.jobs) : \E ret \in {EMBED_DIM, NoVector} :
          executor' = [executor EXCEPT !.jobs[k] = [status |-> "done", ret |-> ret]]
    /\ UNCHANGED <<ctx, session>>
    /\ UNCHANGED <<cliVars, model_state, embVars, rowVars, scr_pc, categories, scr_cat,
                   all_products, seen_product_urls, processed_products, scr_batch,
                   saved, scr_result>>

\* The await of run_in_executor gets the finished job's value.
Resume ==
    /\ ctx.at = "awaiting"
    /\ executor.jobs[Len(executor.jobs)].status = "done"
    /\ ctx' = [ctx EXCEPT !.at = "scrape"]
    /\ UNCHANGED <<session, executor>>
    /\ UNCHANGED <<cliVars, model_state, embVars, rowVars, scr_pc, categories, scr_cat,
                   all_products, seen_product_urls, processed_products, scr_batch,
                   saved, scr_result>>

\* run_full_scrape returns, or an exception leaves it, with no job awaited.
ScrapeEnds ==
    /\ ctx.at = "scrape"
    /\ \E exc \in {None, "error", "cancelled"} :
          ctx' = [ctx EXCEPT !.at = "exit", !.exc = exc,
                             !.left = JobStatuses(executor.jobs)]
    /\ UNCHANGED <<session, executor>>
    /\ UNCHANGED <<cliVars, model_state, embVars, rowVars, scr_pc, categories, scr_cat,
                   all_products, seen_product_urls, processed_products, scr_batch,
                   saved, scr_result>>

\* The scrape is interrupted while it awaits a job (the KeyboardInterrupt of
\* main): the await is cancelled, which takes a still queued job back and
\* leaves a running one to its thread.
Interrupt ==
    /\ ctx.at = "awaiting"
    /\ LET last == Len(executor.jobs)
       IN  executor' = IF executor.jobs[last].status = "pending"
                       THEN [executor EXCEPT !.jobs[last].status = "cancelled"]
                       ELSE executor
    /\ ctx' = [ctx EXCEPT !.at = "exit", !.exc = "cancelled",
                          !.left = JobStatuses(executor.jobs)]
    /\ UNCHANGED session
    /\ UNCHANGED <<cliVars, model_state, embVars, rowVars, scr_pc, categories, scr_cat,
                   all_products, seen_product_urls, processed_products, scr_batch,
                   saved, scr_result>>

\* __aexit__, lines 143-144: the session is closed.
CloseSession ==
    /\ ctx.at = "exit"
    /\ session' = IF session # None THEN "closed" ELSE session
    /\ ctx' = [ctx EXCEPT !.at = "shutdown"]
    /\ UNCHANGED executor
    /\ UNCHANGED <<cliVars, model_state, embVars, rowVars, scr_pc, categories, scr_cat,
                   all_products, seen_product_urls, processed_products, scr_batch,
                   saved, scr_result>>

\* __aexit__, line 145: executor.shutdown(wait=True) is called.
Shutdown ==
    /\ ctx.at = "shutdown"
    /\ executor' = [executor EXCEPT !.shutdown = TRUE]
    /\ ctx' = [ctx EXCEPT !.at = "joining"]
    /\ UNCHANGED session
    /\ UNCHANGED <<cliVars, model_state, embVars, rowVars, scr_pc, categories, scr_cat,
                   all_products, seen_product_urls, processed_products, scr_batch,
                   saved, scr_result>>

\* __aexit__, line 145: the shutdown call returns and with it the exit.
ExitReturns ==
    /\ ctx.at = "joining"
    /\ ShutdownReturns(TRUE, executor.jobs)
    /\ ctx' = [ctx EXCEPT !.at = "exited"]
    /\ UNCHANGED <<session, executor>>
    /\ UNCHANGED <<cliVars, model_state, embVars, rowVars, scr_pc, categories, scr_cat,
                   all_products, seen_product_urls, processed_products, scr_batch,
                   saved, scr_result>>

PoolNext ==
    \/ GenerateEmbedding
    \/ WorkerStarts
    \/ WorkerFinishes
    \/ Resume
    \/ ScrapeEnds
    \/ Interrupt
    \/ CloseSession
    \/ Shutdown
    \/ ExitReturns

SpecPool == PoolInit /\ [][PoolNext]_vars

\* C30 as stated: when the exit of the BershkaScraper context returns, after
\* a normal end of the scrape or an exception in it, the executor is shut
\* down and every job that was submitted has run to its end.
C30_EveryJobCompleted ==
    ctx.at = "exited"
        => /\ executor.shutdown
           /\ \A k \in 1..Len(executor.jobs) : executor.jobs[k].status = "done"

\* C30, amended: when the exit returns the executor is shut down and no job
\* is queued or running; every submitted job has run to its end, except that
\* the job an interrupted scrape was waiting for may have been cancelled
\* before a worker started it.
C30_NoJobLeftAtExit ==
    ctx.at = "exited"
        => /\ executor.shutdown
           /\ session = "closed"
           /\ \A k \in 1..Len(executor.jobs) :
                 \/ executor.jobs[k].status = "done"
                 \/ /\ executor.jobs[k].status = "cancelled"
                    /\ k = Len(executor.jobs)
                    /\ ctx.exc = "cancelled"
                    /\ ctx.left[k] = "pending"

\* The exit returned after an interruption that found a job running.
C30_Reached ==
    /\ ctx.at = "exited"
    /\ ctx.exc = "cancelled"
    /\ \E k \in 1..Len(ctx.left) :
          ctx.left[k] = "running" /\ executor.jobs[k].status = "done"

=============================================================================
